---------------------------- MODULE Spec2Model ----------------------------
(***************************************************************************)
(* Value-estimation and concurrent-enrichment pipeline of the Elk River    *)
(* inventory tracker: input validator, heuristic pricing model, value      *)
(* blender, two-tier listings cache, shared rate limiter, thread-pool      *)
(* orchestrator and store_listings.                                        *)
(*                                                                         *)
(* Conventions.                                                            *)
(*  - Python str values are TLA+ strings; a character is a string of       *)
(*    length 1 (SubSeq(s, i, i)).                                          *)
(*  - Money is kept in integer cents (50.0 dollars = 5000); Python floats  *)
(*    are replaced by fixed-point arithmetic that rounds down.             *)
(*  - Python None in a numeric field is NoneVal (-1); the "N/A" sample     *)
(*    size marker is NA (-2).                                              *)
(*  - Time (time.time()) is an integer number of ticks.                    *)
(*  - Python indexes from 0, TLA+ sequences from 1: the task with          *)
(*    index i sits at position i + 1.                                      *)
(***************************************************************************)
EXTENDS Integers, Sequences, FiniteSets, TLC

\* ------------------------------------------------------------------------
\* Python str primitives
\* ------------------------------------------------------------------------
LowerLetters == "abcdefghijklmnopqrstuvwxyz"

UpperLetters == "ABCDEFGHIJKLMNOPQRSTUVWXYZ"

DigitChars == "0123456789"

CharAt(s, i) == SubSeq(s, i, i)

CharsOf(s) == { CharAt(s, i) : i \in 1..Len(s) }

\* str.strip() removes these from both ends; the regex class \s matches them
Whitespace == {" ", "\t", "\n", "\r", "\f"}

UpperChar(c) ==
    IF \E i \in 1..Len(LowerLetters) : CharAt(LowerLetters, i) = c
    THEN CharAt(UpperLetters, CHOOSE i \in 1..Len(LowerLetters) : CharAt(LowerLetters, i) = c)
    ELSE c

RECURSIVE PyUpper(_)
PyUpper(s) == IF s = "" THEN "" ELSE UpperChar(CharAt(s, 1)) \o PyUpper(SubSeq(s, 2, Len(s)))

RECURSIVE LStrip(_)
LStrip(s) ==
    IF s # "" /\ CharAt(s, 1) \in Whitespace THEN LStrip(SubSeq(s, 2, Len(s))) ELSE s

RECURSIVE RStrip(_)
RStrip(s) ==
    IF s # "" /\ CharAt(s, Len(s)) \in Whitespace THEN RStrip(SubSeq(s, 1, Len(s) - 1)) ELSE s

PyStrip(s) == RStrip(LStrip(s))

\* Python's  sub in s
Contains(s, sub) ==
    \E i \in 1..(Len(s) - Len(sub) + 1) : SubSeq(s, i, i + Len(sub) - 1) = sub

\* Python's  s[:n]
Truncate(s, n) == IF Len(s) <= n THEN s ELSE SubSeq(s, 1, n)

Max(a, b) == IF a >= b THEN a ELSE b

Min(a, b) == IF a <= b THEN a ELSE b

Abs(a) == IF a >= 0 THEN a ELSE 0 - a

NoneVal == -1

NA == -2

\* ------------------------------------------------------------------------
\* validation.py
\* ------------------------------------------------------------------------
ValidationResult(ok, cleaned, msg) ==
    [is_valid |-> ok, cleaned_value |-> cleaned, error_message |-> msg]

AlnumChars == CharsOf(LowerLetters) \cup CharsOf(UpperLetters) \cup CharsOf(DigitChars)

\* character classes of MANUFACTURER_PATTERN, MODEL_PATTERN, CALIBER_PATTERN
ManufacturerChars == AlnumChars \cup Whitespace \cup {"&", "-", "."}

ModelChars == AlnumChars \cup Whitespace \cup {"-", ".", "/"}

\* CALIBER_PATTERN also lists a multiplication sign, stored in the source as
\* non-ASCII bytes followed by X; no descriptor of the pools contains it.
CaliberChars == AlnumChars \cup Whitespace \cup {"-", ".", "/"}

MAX_MANUFACTURER_LEN == 50

MAX_MODEL_LEN == 50

MAX_CALIBER_LEN == 30

sql_patterns == {"SELECT", "INSERT", "UPDATE", "DELETE", "DROP", "UNION", "--", ";"}

\* the body shared by validate_manufacturer / validate_model / validate_caliber
ValidateField(value, label, maxLen, allowed) ==
    LET cleaned == PyUpper(PyStrip(value)) IN
    IF value = "" THEN ValidationResult(FALSE, "", label \o " is required")
    ELSE IF cleaned = "" THEN ValidationResult(FALSE, "", label \o " cannot be empty")
    ELSE IF Len(cleaned) > maxLen THEN ValidationResult(FALSE, "", label \o " name too long")
    ELSE IF ~(CharsOf(cleaned) \subseteq allowed)
         THEN ValidationResult(FALSE, "", label \o " contains invalid characters")
    ELSE IF \E p \in sql_patterns : Contains(cleaned, p)
         THEN ValidationResult(FALSE, "", label \o " contains invalid content")
    ELSE ValidationResult(TRUE, cleaned, "")

validate_manufacturer(manufacturer) ==
    ValidateField(manufacturer, "Manufacturer", MAX_MANUFACTURER_LEN, ManufacturerChars)

validate_model(model) ==
    ValidateField(model, "Model", MAX_MODEL_LEN, ModelChars)

validate_caliber(caliber) ==
    ValidateField(caliber, "Caliber", MAX_CALIBER_LEN, CaliberChars)

\* cleaned_value is the triple of cleaned fields
validate_search_params(manufacturer, model, caliber) ==
    LET mr == validate_manufacturer(manufacturer)
        mo == validate_model(model)
        cr == validate_caliber(caliber)
    IN  IF ~mr.is_valid
        THEN ValidationResult(FALSE, <<>>, "Manufacturer: " \o mr.error_message)
        ELSE IF ~mo.is_valid
        THEN ValidationResult(FALSE, <<>>, "Model: " \o mo.error_message)
        ELSE IF ~cr.is_valid
        THEN ValidationResult(FALSE, <<>>, "Caliber: " \o cr.error_message)
        ELSE ValidationResult(TRUE,
                 [manufacturer |-> mr.cleaned_value, model |-> mo.cleaned_value,
                  caliber |-> cr.cleaned_value], "")

\* ------------------------------------------------------------------------
\* firearm_values.py : heuristic pricing model
\* ------------------------------------------------------------------------
\* MIN_VALUE = 50.0 dollars, in cents
MIN_VALUE == 5000

\* manufacturer_values, in dollars; 450 when the manufacturer is unknown
manufacturer_values(mfg_upper) ==
    CASE mfg_upper = "GLOCK" -> 500
      [] mfg_upper \in {"SMITH & WESSON", "S&W", "REMINGTON", "HENRY"} -> 450
      [] mfg_upper \in {"RUGER", "SAVAGE", "STOEGER"} -> 400
      [] mfg_upper \in {"SIG SAUER", "WINCHESTER", "CZ"} -> 600
      [] mfg_upper = "COLT" -> 800
      [] mfg_upper = "MOSSBERG" -> 350
      [] mfg_upper \in {"BERETTA", "SPRINGFIELD"} -> 550
      [] mfg_upper \in {"TAURUS", "KEL-TEC"} -> 300
      [] mfg_upper \in {"BROWNING", "TIKKA"} -> 700
      [] mfg_upper = "FN" -> 750
      [] mfg_upper = "KIMBER" -> 850
      [] mfg_upper = "HK" -> 900
      [] mfg_upper = "MARLIN" -> 500
      [] OTHER -> 450

\* caliber_factors, in hundredths; 1.0 when the caliber is unknown
caliber_factors(cal_upper) ==
    CASE cal_upper \in {"9MM", "7.62X39", "12 GAUGE", "30-30 WIN"} -> 100
      [] cal_upper \in {"45 ACP", "308 WIN", "30-06", "30-06 SPRINGFIELD"} -> 110
      [] cal_upper \in {"380 ACP", "38 SPECIAL"} -> 90
      [] cal_upper \in {"40 S&W", "20 GAUGE"} -> 95
      [] cal_upper \in {"10MM", "44 MAG", "300 WIN MAG"} -> 120
      [] cal_upper \in {"357 MAG", "6.5 CREEDMOOR", "45-70 GOVT"} -> 115
      [] cal_upper \in {"22 LONG RIFLE", "22 LR"} -> 80
      [] cal_upper \in {"223 REM", "5.56", "5.56X45 NATO", "5.56 NATO"} -> 105
      [] OTHER -> 100

\* model_factor *= pct / 100, the factor being kept in units of 1/10000
TimesPct(factor, pct) == (factor * pct) \div 100

\* the manufacturer-specific percentage applied to model_factor (100 = none)
SpecificModelPct(mfg_upper, model_upper) ==
    IF mfg_upper = "GLOCK"
    THEN (IF model_upper \in {"17", "19", "43", "43X", "48"} THEN 110 ELSE 100)
    ELSE IF mfg_upper \in {"SMITH & WESSON", "S&W"}
    THEN (IF Contains(model_upper, "SHIELD") THEN 105
          ELSE IF Contains(model_upper, "629") \/ Contains(model_upper, "686") THEN 120
          ELSE 100)
    ELSE IF mfg_upper = "RUGER"
    THEN (IF Contains(model_upper, "10/22") THEN 90
          ELSE IF Contains(model_upper, "MINI-14") THEN 115
          ELSE IF Contains(model_upper, "GP100") THEN 110
          ELSE 100)
    ELSE IF mfg_upper = "COLT"
    THEN (IF Contains(model_upper, "PYTHON") THEN 150
          ELSE IF Contains(model_upper, "1911") THEN 120
          ELSE 100)
    ELSE IF mfg_upper = "TAURUS"
    THEN (IF Contains(model_upper, "PT22") \/ Contains(model_upper, "PT-22") THEN 85 ELSE 100)
    ELSE 100

\* model_factor in units of 1/10000
ModelFactor(mfg_upper, model_upper) ==
    LET f0 == 10000
        f1 == IF \E w \in {"CUSTOM", "TACTICAL", "PREMIUM", "ELITE", "TARGET"} :
                    Contains(model_upper, w)
              THEN TimesPct(f0, 120) ELSE f0
        f2 == IF \E w \in {"COMPACT", "CARRY"} : Contains(model_upper, w)
              THEN TimesPct(f1, 105) ELSE f1
        f3 == IF Contains(model_upper, "COMPETITION") THEN TimesPct(f2, 125) ELSE f2
        f4 == IF Contains(model_upper, "HUNTER") THEN TimesPct(f3, 110) ELSE f3
    IN  TimesPct(f4, SpecificModelPct(mfg_upper, model_upper))

\* the tuple (avg_price, (range_low, range_high), 0) or None
AlgoResult(price, low, high) ==
    [present |-> TRUE, avg_price |-> price, range_low |-> low, range_high |-> high,
     sample_size |-> 0]

\* the  return None  of estimate_market_value's except branch
NoAlgoResult ==
    [present |-> FALSE, avg_price |-> NoneVal, range_low |-> NoneVal,
     range_high |-> NoneVal, sample_size |-> NoneVal]

\* range_low = max(estimated_price * 0.85, MIN_VALUE)
HeuristicRangeLow(estimated_price) == Max((estimated_price * 85) \div 100, MIN_VALUE)

\* variant: the range collapses onto its lower end
HeuristicRangeHighCollapsed(estimated_price, range_low) == range_low

\* range_high = max(estimated_price * 1.15, range_low * 1.1)
HeuristicRangeHigh(estimated_price, range_low) ==
    Max((estimated_price * 115) \div 100, (range_low * 11) \div 10)

estimate_market_value(manufacturer, model, caliber) ==
    LET mfg_upper   == PyUpper(manufacturer)
        cal_upper   == PyUpper(caliber)
        model_upper == PyUpper(model)
        \* base_price [dollars] * caliber_factor [1/100] is in cents
        base_cents  == manufacturer_values(mfg_upper) * caliber_factors(cal_upper)
        raw_price   == (base_cents * ModelFactor(mfg_upper, model_upper)) \div 10000
        estimated_price == Max(raw_price, MIN_VALUE)
        low         == HeuristicRangeLow(estimated_price)
    IN  AlgoResult(estimated_price, low, HeuristicRangeHigh(estimated_price, low))

\* ------------------------------------------------------------------------
\* Market listings and the value blender
\* ------------------------------------------------------------------------
\* one listing dict built by search_armslist; price is in cents or NoneVal
MarketListing(title, price, price_text) ==
    [title |-> title, price |-> price, price_text |-> price_text,
     link |-> "#", location |-> "Location not specified", ships |-> FALSE,
     source |-> "Armslist"]

\* [l for l in market_listings if l.get("price") is None or l.get("price") >= MIN_VALUE]
KeepsListing(l) == l.price = NoneVal \/ l.price >= MIN_VALUE

FilterSuspicious(market_listings) == SelectSeq(market_listings, KeepsListing)

\* any(l.get("price") for l in market_listings): None and 0 are falsy
AnyPrice(market_listings) ==
    \E i \in 1..Len(market_listings) :
        market_listings[i].price # NoneVal /\ market_listings[i].price # 0

HasPrice(l) == l.price # NoneVal

\* [l.get("price") for l in market_listings if l.get("price") is not None]
ValidPrices(market_listings) ==
    LET priced == SelectSeq(market_listings, HasPrice)
    IN  [i \in 1..Len(priced) |-> priced[i].price]

RECURSIVE SumSeq(_)
SumSeq(q) == IF q = <<>> THEN 0 ELSE Head(q) + SumSeq(Tail(q))

MinOfSeq(q) == CHOOSE v \in { q[i] : i \in 1..Len(q) } : \A j \in 1..Len(q) : v <= q[j]

MaxOfSeq(q) == CHOOSE v \in { q[i] : i \in 1..Len(q) } : \A j \in 1..Len(q) : v >= q[j]

\* online_avg = max(sum(valid_prices) / len(valid_prices), MIN_VALUE)
OnlineAvg(valid_prices) == Max(SumSeq(valid_prices) \div Len(valid_prices), MIN_VALUE)

\* variant: the two signals weigh the same
BlendedPriceEvenWeights(online_avg, avg_price) ==
    Max((online_avg * 5 + avg_price * 5) \div 10, MIN_VALUE)

\* blended_price = max(online_avg * 0.7 + avg_price * 0.3, MIN_VALUE)
BlendedPrice(online_avg, avg_price) ==
    Max((online_avg * 7 + avg_price * 3) \div 10, MIN_VALUE)

\* range_adjustment = min(abs(blended_price - avg_price) / avg_price, 0.3), in 1/1000
RangeAdjustment(blended_price, avg_price) ==
    Min((Abs(blended_price - avg_price) * 1000) \div avg_price, 300)

\* new_range_low = max(blended_price * (0.85 - range_adjustment / 2), MIN_VALUE)
NewRangeLow(blended_price, adj) == Max((blended_price * (1700 - adj)) \div 2000, MIN_VALUE)

\* new_range_high = max(blended_price * (1.15 + range_adjustment / 2), new_range_low * 1.1)
NewRangeHigh(blended_price, adj, new_range_low) ==
    Max((blended_price * (2300 + adj)) \div 2000, (new_range_low * 11) \div 10)

\* "Blend with online data if available": (avg_price, price_range) after the blend
Blend(algo, market_listings) ==
    IF market_listings # <<>> /\ AnyPrice(market_listings)
       /\ ValidPrices(market_listings) # <<>>
    THEN LET online_avg == OnlineAvg(ValidPrices(market_listings))
             blended    == BlendedPrice(online_avg, algo.avg_price)
             adj        == RangeAdjustment(blended, algo.avg_price)
             new_low    == NewRangeLow(blended, adj)
         IN  [avg_price |-> blended, range_low |-> new_low,
              range_high |-> NewRangeHigh(blended, adj, new_low)]
    ELSE [avg_price |-> algo.avg_price, range_low |-> algo.range_low,
          range_high |-> algo.range_high]

\* "Ensure price range is valid": range_low = max(range_low, MIN_VALUE)
EnsureRangeLow(range_low) == Max(range_low, MIN_VALUE)

\* range_high = max(range_high, range_low * 1.1)
EnsureRangeHigh(range_high, range_low) == Max(range_high, (range_low * 11) \div 10)

NoRange == <<>>

\* "sample_size": len(market_listings) if market_listings else "N/A"
SampleSize(market_listings) == IF market_listings # <<>> THEN Len(market_listings) ELSE NA

\* "source": "Market Estimator" if not market_listings else f"Market Estimator + {n} Online Listings"
SourceLabel(market_listings) ==
    IF market_listings = <<>> THEN "Market Estimator"
    ELSE "Market Estimator + " \o ToString(Len(market_listings)) \o " Online Listings"

\* variant: the label does not look at market_listings
ConfidenceAlwaysHigh(market_listings) == "high"

\* "confidence": "medium" if not market_listings else "high"
Confidence(market_listings) == IF market_listings = <<>> THEN "medium" ELSE "high"

\* the value_info of the branch in which the heuristic estimate is present
AlgoValueInfo(algo, market_listings) ==
    LET b    == Blend(algo, market_listings)
        low  == EnsureRangeLow(b.range_low)
        high == EnsureRangeHigh(b.range_high, low)
    IN  [estimated_value |-> b.avg_price,
         value_range     |-> <<low, high>>,
         sample_size     |-> SampleSize(market_listings),
         source          |-> SourceLabel(market_listings),
         confidence      |-> Confidence(market_listings),
         market_listings |-> market_listings]

\* variant: the online-only branch takes min(valid_prices) without the floor
OnlineOnlyRangeLowRaw(valid_prices) == MinOfSeq(valid_prices)

\* range_low = max(min(valid_prices), MIN_VALUE) of the online-only branch
OnlineOnlyRangeLow(valid_prices) == Max(MinOfSeq(valid_prices), MIN_VALUE)

\* the value_info of the online-only branch (heuristic absent, prices present)
OnlineOnlyValueInfo(market_listings) ==
    LET valid_prices == ValidPrices(market_listings)
        low  == OnlineOnlyRangeLow(valid_prices)
        high == Max(MaxOfSeq(valid_prices), (low * 11) \div 10)
    IN  [estimated_value |-> OnlineAvg(valid_prices),
         value_range     |-> <<low, high>>,
         sample_size     |-> Len(valid_prices),
         source          |-> "Online Listings (" \o ToString(Len(valid_prices)) \o " samples)",
         confidence      |-> "medium",
         market_listings |-> market_listings]

\* variant: the outcome without an estimate is labelled "medium"
NoDataValueInfoMedium ==
    [estimated_value |-> NoneVal, value_range |-> NoRange, sample_size |-> 0,
     source |-> "No data available", confidence |-> "medium", market_listings |-> <<>>]

\* "No data available": neither the heuristic nor a priced listing
NoDataValueInfo ==
    [estimated_value |-> NoneVal, value_range |-> NoRange, sample_size |-> 0,
     source |-> "No data available", confidence |-> "none", market_listings |-> <<>>]

\* the guard of the online-only branch
OnlineOnlyApplies(market_listings) ==
    market_listings # <<>> /\ AnyPrice(market_listings) /\ ValidPrices(market_listings) # <<>>

\* value_info computed by _estimate_single_value from the heuristic result and
\* the list fetched returned by _get_cached_or_fetch_listings (read only if online)
SingleValueInfo(algo, use_online_sources, fetched) ==
    IF algo.present
    THEN AlgoValueInfo(algo, IF use_online_sources THEN FilterSuspicious(fetched) ELSE <<>>)
    ELSE IF use_online_sources /\ OnlineOnlyApplies(fetched)
    THEN OnlineOnlyValueInfo(fetched)
    ELSE NoDataValueInfo

\* value_info computed by estimate_value after validation, from the heuristic
\* result and the list returned by get_market_listings (read only if online)
EstimateValueInfo(algo, use_online_sources, listings) ==
    LET market_listings == IF use_online_sources THEN FilterSuspicious(listings) ELSE <<>>
    IN  IF algo.present THEN AlgoValueInfo(algo, market_listings)
        ELSE IF OnlineOnlyApplies(market_listings) THEN OnlineOnlyValueInfo(market_listings)
        ELSE NoDataValueInfo

\* ------------------------------------------------------------------------
\* cache_manager.py : MarketListingsCache
\* ------------------------------------------------------------------------
\* ttl_seconds of the cache instance, in ticks
ttl_seconds == 2

\* variant: the fields enter the key as they were passed
_generate_cache_key_verbatim(manufacturer, model, caliber) ==
    manufacturer \o "|" \o model \o "|" \o caliber

\* hashlib.md5(normalized.encode()).hexdigest(): the digest is taken to be
\* injective, so the key is the normalized string itself
_generate_cache_key(manufacturer, model, caliber) ==
    PyStrip(PyUpper(manufacturer)) \o "|" \o PyStrip(PyUpper(model)) \o "|"
        \o PyStrip(PyUpper(caliber))

\* cache_data of set(); the same dict is the memory entry and the JSON file
CacheData(timestamp, listings, manufacturer, model, caliber) ==
    [timestamp |-> timestamp, listings |-> listings, manufacturer |-> manufacturer,
     model |-> model, caliber |-> caliber]

\* key not in memory_cache / cache file does not exist
NoEntry == [absent |-> TRUE]

\* a cache file that json.load cannot decode (the remains of a failed write)
Corrupt == [corrupt |-> TRUE]

_is_cache_valid(cache_data, time) ==
    IF "timestamp" \notin DOMAIN cache_data THEN FALSE
    ELSE time - cache_data.timestamp < ttl_seconds

\* what get() returns: None, or the listings of a record
Absent == [hit |-> FALSE, listings |-> <<>>]

Hit(listings) == [hit |-> TRUE, listings |-> listings]

\* the memory-tier step of get(): a valid entry is returned, an expired one deleted
MemoryAfterLookup(mem, cache_key, time) ==
    IF mem[cache_key] # NoEntry /\ ~_is_cache_valid(mem[cache_key], time)
    THEN [mem EXCEPT ![cache_key] = NoEntry]
    ELSE mem

\* variant: get() never unlinks a cache file
FileAfterLookupKept(files, cache_key, time) == files

\* the file-tier step of get(): an expired or corrupted file is unlinked
FileAfterLookup(files, cache_key, time) ==
    IF files[cache_key] = NoEntry THEN files
    ELSE IF files[cache_key] = Corrupt THEN [files EXCEPT ![cache_key] = NoEntry]
    ELSE IF _is_cache_valid(files[cache_key], time) THEN files
    ELSE [files EXCEPT ![cache_key] = NoEntry]

\* variant: a record read from the cache file is returned without being put
\* into memory_cache
MemoryAfterLoadSkipped(mem, cache_key, cache_data) == mem

\* get() found a valid cache file: the decoded record, timestamp included,
\* becomes the memory entry
MemoryAfterLoad(mem, cache_key, cache_data) == [mem EXCEPT ![cache_key] = cache_data]

\* variant: get() reads the cache file first and the memory entry only when
\* there is no valid file
CacheGetDurableFirst(mem, files, cache_key, time) ==
    IF files[cache_key] # NoEntry /\ files[cache_key] # Corrupt
       /\ _is_cache_valid(files[cache_key], time)
    THEN [result |-> Hit(files[cache_key].listings),
          mem    |-> [mem EXCEPT ![cache_key] = files[cache_key]],
          files  |-> files]
    ELSE IF mem[cache_key] # NoEntry /\ _is_cache_valid(mem[cache_key], time)
    THEN [result |-> Hit(mem[cache_key].listings), mem |-> mem,
          files  |-> FileAfterLookup(files, cache_key, time)]
    ELSE [result |-> Absent, mem |-> MemoryAfterLookup(mem, cache_key, time),
          files  |-> FileAfterLookup(files, cache_key, time)]

\* the body of get() under cache_lock: the value returned and both tiers after it
CacheGet(mem, files, cache_key, time) ==
    IF mem[cache_key] # NoEntry /\ _is_cache_valid(mem[cache_key], time)
    THEN [result |-> Hit(mem[cache_key].listings), mem |-> mem, files |-> files]
    ELSE LET mem1 == MemoryAfterLookup(mem, cache_key, time) IN
         IF files[cache_key] # NoEntry /\ files[cache_key] # Corrupt
            /\ _is_cache_valid(files[cache_key], time)
         THEN [result |-> Hit(files[cache_key].listings),
               mem    |-> MemoryAfterLoad(mem1, cache_key, files[cache_key]),
               files  |-> files]
         ELSE [result |-> Absent, mem |-> mem1,
               files  |-> FileAfterLookup(files, cache_key, time)]

\* outcomes of the json.dump of set(): written, IOError before anything was
\* written (old file kept), IOError after the file was truncated
WriteOutcomes == {"ok", "io_error", "io_error_partial"}

\* variant: set() leaves the memory tier alone
MemoryAfterSetSkipped(mem, cache_key, cache_data) == mem

\* the memory tier after set()
MemoryAfterSet(mem, cache_key, cache_data) == [mem EXCEPT ![cache_key] = cache_data]

\* the file tier after set(), by outcome of the write
FileAfterSet(files, cache_key, cache_data, outcome) ==
    IF outcome = "ok" THEN [files EXCEPT ![cache_key] = cache_data]
    ELSE IF outcome = "io_error_partial" THEN [files EXCEPT ![cache_key] = Corrupt]
    ELSE files

\* memory entries removed by clear_expired()
ExpiredMemoryKeys(mem, time) ==
    { k \in DOMAIN mem : mem[k] # NoEntry /\ ~_is_cache_valid(mem[k], time) }

\* cache files removed by clear_expired(): expired or corrupted
ExpiredFileKeys(files, time) ==
    { k \in DOMAIN files : files[k] # NoEntry
                            /\ (files[k] = Corrupt \/ ~_is_cache_valid(files[k], time)) }

\* the body of clear_expired() under cache_lock
ClearExpired(mem, files, time) ==
    LET mk == ExpiredMemoryKeys(mem, time)
        fk == ExpiredFileKeys(files, time)
    IN  [removed_count |-> Cardinality(mk) + Cardinality(fk),
         mem   |-> [k \in DOMAIN mem |-> IF k \in mk THEN NoEntry ELSE mem[k]],
         files |-> [k \in DOMAIN files |-> IF k \in fk THEN NoEntry ELSE files[k]]]

\* ------------------------------------------------------------------------
\* concurrent_estimator.py : tasks, results, rate limiter
\* ------------------------------------------------------------------------
EstimationTask(index, manufacturer, model, caliber, use_online_sources) ==
    [index |-> index, manufacturer |-> manufacturer, model |-> model,
     caliber |-> caliber, use_online_sources |-> use_online_sources]

\* value_info = None / error = None of an EstimationResult
NoValueInfo == [is_none |-> TRUE]

NoError == ""

\* processing_time is a wall-clock measurement and is not modelled
EstimationResult(index, manufacturer, model, caliber, success, value_info, error) ==
    [index |-> index, manufacturer |-> manufacturer, model |-> model,
     caliber |-> caliber, success |-> success, value_info |-> value_info,
     error |-> error]

\* an empty slot of  results = [None] * len(tasks)
NoResult == [is_none |-> TRUE]

create_estimation_tasks(listings, use_online_sources) ==
    [i \in 1..Len(listings) |->
        EstimationTask(i - 1, listings[i].manufacturer, listings[i].model,
                       listings[i].caliber, use_online_sources)]

\* the EstimationResult returned by the body of the try block
SuccessResult(task, value_info) ==
    EstimationResult(task.index, task.manufacturer, task.model, task.caliber,
                     TRUE, value_info, NoError)

\* variant: the except clause reports the task as a success without value_info
FailureAsSuccess(task, error) ==
    EstimationResult(task.index, task.manufacturer, task.model, task.caliber,
                     TRUE, NoValueInfo, error)

\* the EstimationResult returned by  except Exception as e
FailureResult(task, error) ==
    EstimationResult(task.index, task.manufacturer, task.model, task.caliber,
                     FALSE, NoValueInfo, error)

\* str(e) of the AttributeError raised by  self.cache.get  when cache is None
CacheNoneError == "'NoneType' object has no attribute 'get'"

\* the listings _get_cached_or_fetch_listings returns when the fetch raised
ListingsOnFetchError == <<>>

\* variant: results are stored in the order of completion
ResultSlotByCompletion(result, completed_count) == completed_count

\* results[result.index] = result : the position written by update_progress
ResultSlot(result, completed_count) == result.index + 1

\* variant: the count is reported before it is incremented
ProgressCallStale(completed_count, all_tasks, written, result) ==
    [completed_count |-> completed_count - 1,
     total_count     |-> Len(all_tasks),
     index           |-> result.index,
     slot            |-> written[result.index + 1]]

\* progress_callback(completed_count, len(tasks), status) as update_progress
\* calls it, after  results[result.index] = result ; slot is what the callback
\* finds in results at the position of the task the status names
ProgressCall(completed_count, all_tasks, written, result) ==
    [completed_count |-> completed_count,
     total_count     |-> Len(all_tasks),
     index           |-> result.index,
     slot            |-> written[result.index + 1]]

\* rate_limit_delay of the estimator, in ticks
rate_limit_delay == 1

\* variant: the limiter never sleeps
SleepDurationNone(current_time, last) == 0

\* time.sleep(rate_limit_delay - time_since_last) when time_since_last is below the delay
SleepDuration(current_time, last) ==
    IF current_time - last < rate_limit_delay
    THEN rate_limit_delay - (current_time - last)
    ELSE 0

\* ------------------------------------------------------------------------
\* Bounds and input pools
\* ------------------------------------------------------------------------
\* longest batch handed to estimate_values_batch
MaxTasks == 2

\* max_workers of the estimator
NumWorkers == 2

\* the clock may run this many ticks past StartTime while nobody sleeps
MaxIdleTicks == 1

\* length of the batch whose listings are all of one firearm (SpecSame)
MaxSameTasks == 3

\* the clock of that batch runs this many ticks past StartTime while no worker sleeps
MaxSameIdleTicks == 2

\* time.time() when the batch starts
StartTime == 5

Workers == 1..NumWorkers

Descriptor(manufacturer, model, caliber) ==
    [manufacturer |-> manufacturer, model |-> model, caliber |-> caliber]

\* firearm descriptors of scraped listings: a table entry, the same firearm in
\* another spelling, one the validator rejects ("&" in the model), an empty field
DescGlock == Descriptor("GLOCK", "19", "9MM")

DescGlockLoose == Descriptor("Glock", " 19 ", "9mm")

DescShield == Descriptor("SMITH & WESSON", "M&P Shield", "9MM")

DescEmpty == Descriptor("", "700", "308 WIN")

\* a table manufacturer at $450 with a caliber written in lower case
DescRemington == Descriptor("Remington", "870", "12 gauge")

BatchDescPool == {DescGlockLoose, DescShield}

KeyOf(d) == _generate_cache_key(d.manufacturer, d.model, d.caliber)

IsValidDescriptor(d) == validate_search_params(d.manufacturer, d.model, d.caliber).is_valid

ListingUnpriced == MarketListing("Glock 19 Gen5", NoneVal, "Price not listed")

Listing500 == MarketListing("Glock 19", 50000, "$500")

Listing520 == MarketListing("Glock 19 w/ case", 52000, "$520.00")

Listing480 == MarketListing("Used Glock", 48000, "$480")

Listing20 == MarketListing("Holster", 2000, "$20")

Listing2500 == MarketListing("Custom 1911", 250000, "$2,500")

\* result pages the marketplace may answer with during a batch
BatchListingPool == { <<>>, <<ListingUnpriced>> }

\* outcomes of the cache-file write during a batch (SpecCache covers the
\* failing writes)
BatchWriteOutcomes == {"ok"}

AllDescriptors == BatchDescPool \cup {DescGlock, DescEmpty, DescRemington}

\* _generate_cache_key, validate_search_params and estimate_market_value
\* tabulated over the descriptor pool (each is evaluated once per descriptor)
KeyTable == [d \in AllDescriptors |-> KeyOf(d)]

ValidationTable ==
    [d \in AllDescriptors |-> validate_search_params(d.manufacturer, d.model, d.caliber)]

AlgoTable ==
    [d \in AllDescriptors |-> estimate_market_value(d.manufacturer, d.model, d.caliber)]

DescOf(task) == Descriptor(task.manufacturer, task.model, task.caliber)

\* every sequence over S of length lo..hi
SeqsOf(S, lo, hi) == UNION { [1..n -> S] : n \in lo..hi }

\* ------------------------------------------------------------------------
\* State
\* ------------------------------------------------------------------------
VARIABLES
    tasks,              \* the batch handed to estimate_values_batch
    cache_enabled,      \* FALSE when store_listings set estimator.cache = None
    pending,            \* positions of the submitted tasks no worker has taken yet
    wtask,              \* per worker: position of the task it runs (0 = idle)
    wpc,                \* per worker: where it stands in _estimate_single_value
    wloc,               \* per worker: locals (listings, wake-up time, cache_data timestamp)
    futures,            \* per task: the result its future holds (NoResult = not done)
    yielded,            \* futures as_completed has already yielded
    results,            \* the list  results  of estimate_values_batch
    completed_count,    \* the counter of update_progress
    mainpc,             \* "collect" while in the as_completed loop, "done" once returned
    memory_cache,       \* MarketListingsCache.memory_cache, by cache key
    file_cache,         \* the cache directory, by cache key
    cache_lock,         \* holder of MarketListingsCache.cache_lock (0 = free)
    request_lock,       \* holder of ConcurrentValueEstimator.request_lock (0 = free)
    last_request_time,  \* ConcurrentValueEstimator.last_request_time
    now,                \* time.time()
    request_times,      \* history: the values written to last_request_time
    tasklog,            \* history, per task: what its cache lookup and its fetch did
    yield_order,        \* history: task positions in the order as_completed yielded them
    progress_calls,     \* history: the calls of progress_callback, in order
    blend_io,           \* SpecValue, SpecPaths, SpecSearch: inputs and outputs of one call
    clients,            \* SpecCache: threads calling the cache directly
    cache_log,          \* SpecCache, history: last committed set per key, last get
    store               \* SpecStore: the run of store_listings

vars == <<tasks, cache_enabled, pending, wtask, wpc, wloc, futures, yielded, results,
          completed_count, mainpc, memory_cache, file_cache, cache_lock, request_lock,
          last_request_time, now, request_times, tasklog, yield_order, progress_calls,
          blend_io, clients, cache_log, store>>

batchVars == <<tasks, cache_enabled, pending, wtask, futures, yielded, results,
               completed_count, mainpc, tasklog, yield_order, progress_calls>>

\* the variables the batch does not use
sideVars == <<blend_io, clients, cache_log, store>>

Unused == [unused |-> TRUE]

SideIdle ==
    /\ blend_io = Unused
    /\ clients = Unused
    /\ cache_log = Unused
    /\ store = Unused

cacheVars == <<memory_cache, file_cache, cache_lock>>

rateVars == <<request_lock, last_request_time, request_times>>

CacheKeys == { KeyTable[d] : d \in AllDescriptors }

EmptyTier == [k \in CacheKeys |-> NoEntry]

NoLocals == [listings |-> <<>>, wake |-> 0, stamp |-> 0]

NoLog ==
    [lookup |-> "none", rate |-> "none", fetch |-> "none",
     tiers_changed |-> FALSE,    \* the lookup changed memory_cache or the cache directory
     only_evicted |-> TRUE,      \* and all it did was remove records invalid at that time
     prior |-> {},               \* tasks for the same cache key whose cache.set had
                                 \* completed at the lookup
     fresh |-> {},               \* those of them whose cache_data was within the TTL
     stamp |-> NoneVal,          \* timestamp of the cache_data built from the fetch
     fetched |-> <<>>,           \* what search_armslist returned
     stored |-> FALSE]           \* the task's cache.set has completed

\* tier  after  is tier  before  less some records that were expired or
\* unreadable at that time
OnlyEvicted(before, after, time) ==
    \A k \in DOMAIN before :
        after[k] # before[k] =>
            /\ after[k] = NoEntry
            /\ before[k] = Corrupt \/ ~_is_cache_valid(before[k], time)

\* the log of a task after cache.get returned g
LookupLogged(log, outcome, g, mem, files, time, all, same) ==
    [log EXCEPT !.lookup = outcome,
                !.tiers_changed = (g.mem # mem \/ g.files # files),
                !.only_evicted = (OnlyEvicted(mem, g.mem, time)
                                     /\ OnlyEvicted(files, g.files, time)),
                !.prior = { i \in same : all[i].stored },
                !.fresh = { i \in same :
                               all[i].stored /\ time - all[i].stamp < ttl_seconds }]

\* the cache directory left by an earlier run: empty, or one record for the
\* GLOCK 19 written one tick before the batch starts
EarlierRecord ==
    CacheData(StartTime - 1, <<Listing500, ListingUnpriced>>, "GLOCK", "19", "9MM")

InitialFileCaches ==
    { EmptyTier, [EmptyTier EXCEPT ![KeyTable[DescGlock]] = EarlierRecord] }

\* ------------------------------------------------------------------------
\* estimate_values_batch
\* ------------------------------------------------------------------------
\* the state in which estimate_values_batch(batch) has submitted every task
BatchStart(batch) ==
    /\ tasks = batch
    /\ pending = [i \in 1..Len(batch) |-> i]
    /\ wtask = [w \in Workers |-> 0]
    /\ wpc = [w \in Workers |-> "idle"]
    /\ wloc = [w \in Workers |-> NoLocals]
    /\ futures = [i \in 1..Len(batch) |-> NoResult]
    /\ yielded = {}
    /\ results = [i \in 1..Len(batch) |-> NoResult]
    /\ completed_count = 0
    /\ mainpc = "collect"
    /\ tasklog = [i \in 1..Len(batch) |-> NoLog]
    /\ yield_order = <<>>
    /\ progress_calls = <<>>

Init ==
    /\ \E listings \in SeqsOf(BatchDescPool, 1, MaxTasks), online \in BOOLEAN :
          BatchStart(create_estimation_tasks(listings, online))
    /\ cache_enabled \in BOOLEAN
    /\ memory_cache = EmptyTier
    /\ file_cache \in InitialFileCaches
    /\ cache_lock = 0
    /\ request_lock = 0
    /\ last_request_time = 0
    /\ now = StartTime
    /\ request_times = <<>>
    /\ SideIdle

Task(w) == tasks[wtask[w]]

TaskKey(w) == KeyTable[DescOf(Task(w))]

\* the tasks of the batch with the cache key of the task of worker w
SameKeyTasks(w) == { i \in DOMAIN tasks : KeyTable[DescOf(tasks[i])] = TaskKey(w) }

\* the worker returns from _estimate_single_value: its future is done
Complete(w, result) ==
    /\ futures' = [futures EXCEPT ![wtask[w]] = result]
    /\ wtask' = [wtask EXCEPT ![w] = 0]
    /\ wpc' = [wpc EXCEPT ![w] = "idle"]
    /\ wloc' = [wloc EXCEPT ![w] = NoLocals]

\* the value_info the task gets from the listings it obtained
TaskValueInfo(task, fetched) ==
    SingleValueInfo(AlgoTable[DescOf(task)], task.use_online_sources, fetched)

\* a free worker takes the next submitted task (pool threads are
\* interchangeable: of the idle ones the lowest-numbered takes it); without
\* online sources the whole of _estimate_single_value touches no shared state
\* and completes here
WorkerStart(w) ==
    /\ wpc[w] = "idle" /\ pending # <<>>
    /\ \A v \in Workers : wpc[v] = "idle" => w <= v
    /\ LET i == Head(pending) IN
       /\ pending' = Tail(pending)
       /\ IF tasks[i].use_online_sources
          THEN /\ wtask' = [wtask EXCEPT ![w] = i]
               /\ wpc' = [wpc EXCEPT ![w] = "lookup"]
               /\ UNCHANGED <<wloc, futures>>
          ELSE /\ futures' = [futures EXCEPT
                                 ![i] = SuccessResult(tasks[i], TaskValueInfo(tasks[i], <<>>))]
               /\ UNCHANGED <<wtask, wpc, wloc>>
    /\ UNCHANGED <<tasks, cache_enabled, yielded, results, completed_count, mainpc,
                   tasklog, now>>
    /\ UNCHANGED cacheVars /\ UNCHANGED rateVars
    /\ UNCHANGED <<yield_order, progress_calls>>
    /\ UNCHANGED sideVars

\* self.cache.get(...) with self.cache = None: AttributeError, caught by the
\* except Exception of _estimate_single_value
LookupRaises(w) ==
    /\ wpc[w] = "lookup" /\ ~cache_enabled
    /\ tasklog' = [tasklog EXCEPT ![wtask[w]].lookup = "raised"]
    /\ Complete(w, FailureResult(Task(w), CacheNoneError))
    /\ UNCHANGED <<tasks, cache_enabled, pending, yielded, results, completed_count,
                   mainpc, now>>
    /\ UNCHANGED cacheVars /\ UNCHANGED rateVars
    /\ UNCHANGED <<yield_order, progress_calls>>
    /\ UNCHANGED sideVars

\* cache.get: with self.cache_lock
GetAcquire(w) ==
    /\ wpc[w] = "lookup" /\ cache_enabled
    /\ cache_lock = 0
    /\ cache_lock' = w
    /\ wpc' = [wpc EXCEPT ![w] = "get_locked"]
    /\ UNCHANGED <<memory_cache, file_cache, wloc, now>>
    /\ UNCHANGED batchVars /\ UNCHANGED rateVars
    /\ UNCHANGED sideVars

\* the rest of _estimate_single_value once the listings are known: filter,
\* blend, build the result; the worker returns and its future is done
Finish(w, fetched) ==
    Complete(w, SuccessResult(Task(w), TaskValueInfo(Task(w), fetched)))

\* variant: the cached listings are ignored and the task goes on to
\* _rate_limited_request as on a miss
GetHitThenFetch(w) ==
    /\ wpc[w] = "get_locked"
    /\ LET g == CacheGet(memory_cache, file_cache, TaskKey(w), now) IN
       /\ g.result.hit
       /\ memory_cache' = g.mem
       /\ file_cache' = g.files
       /\ cache_lock' = 0
       /\ tasklog' = [tasklog EXCEPT ![wtask[w]] =
                         LookupLogged(@, "hit", g, memory_cache, file_cache, now, tasklog,
                                      SameKeyTasks(w))]
       /\ wpc' = [wpc EXCEPT ![w] = "rl_acquire"]
    /\ UNCHANGED <<tasks, cache_enabled, pending, wtask, wloc, futures, yielded, results,
                   completed_count, mainpc, now>>
    /\ UNCHANGED rateVars
    /\ UNCHANGED <<yield_order, progress_calls>>
    /\ UNCHANGED sideVars

\* cache.get: the body, then the lock is released; on a hit the task finishes
\* with the cached listings
GetHit(w) ==
    /\ wpc[w] = "get_locked"
    /\ LET g == CacheGet(memory_cache, file_cache, TaskKey(w), now) IN
       /\ g.result.hit
       /\ memory_cache' = g.mem
       /\ file_cache' = g.files
       /\ cache_lock' = 0
       /\ tasklog' = [tasklog EXCEPT ![wtask[w]] =
                         LookupLogged(@, "hit", g, memory_cache, file_cache, now, tasklog,
                                      SameKeyTasks(w))]
       /\ Finish(w, g.result.listings)
    /\ UNCHANGED <<tasks, cache_enabled, pending, yielded, results, completed_count,
                   mainpc, now>>
    /\ UNCHANGED rateVars
    /\ UNCHANGED <<yield_order, progress_calls>>
    /\ UNCHANGED sideVars

\* variant: the miss is reported from inside the  with self.cache_lock  block,
\* so the task goes on to _rate_limited_request while it still holds the lock
GetMissKeepingLock(w) ==
    /\ wpc[w] = "get_locked"
    /\ LET g == CacheGet(memory_cache, file_cache, TaskKey(w), now) IN
       /\ ~g.result.hit
       /\ memory_cache' = g.mem
       /\ file_cache' = g.files
       /\ cache_lock' = w
       /\ tasklog' = [tasklog EXCEPT ![wtask[w]] =
                         LookupLogged(@, "miss", g, memory_cache, file_cache, now, tasklog,
                                      SameKeyTasks(w))]
       /\ wpc' = [wpc EXCEPT ![w] = "rl_acquire"]
    /\ UNCHANGED <<tasks, cache_enabled, pending, wtask, wloc, futures, yielded, results,
                   completed_count, mainpc, now>>
    /\ UNCHANGED rateVars
    /\ UNCHANGED <<yield_order, progress_calls>>
    /\ UNCHANGED sideVars

\* cache.get returns None: the task goes on to _rate_limited_request
GetMiss(w) ==
    /\ wpc[w] = "get_locked"
    /\ LET g == CacheGet(memory_cache, file_cache, TaskKey(w), now) IN
       /\ ~g.result.hit
       /\ memory_cache' = g.mem
       /\ file_cache' = g.files
       /\ cache_lock' = 0
       /\ tasklog' = [tasklog EXCEPT ![wtask[w]] =
                         LookupLogged(@, "miss", g, memory_cache, file_cache, now, tasklog,
                                      SameKeyTasks(w))]
       /\ wpc' = [wpc EXCEPT ![w] = "rl_acquire"]
    /\ UNCHANGED <<tasks, cache_enabled, pending, wtask, wloc, futures, yielded, results,
                   completed_count, mainpc, now>>
    /\ UNCHANGED rateVars
    /\ UNCHANGED <<yield_order, progress_calls>>
    /\ UNCHANGED sideVars

\* _rate_limited_request: with self.request_lock; current_time = time.time()
\* and the sleep, if any, starts with the lock held
RateAcquire(w) ==
    /\ wpc[w] = "rl_acquire"
    /\ request_lock = 0
    /\ request_lock' = w
    /\ wloc' = [wloc EXCEPT ![w].wake = now + SleepDuration(now, last_request_time)]
    /\ wpc' = [wpc EXCEPT ![w] = "rl_sleep"]
    /\ tasklog' = [tasklog EXCEPT ![wtask[w]].rate = "acquired"]
    /\ UNCHANGED <<last_request_time, request_times, now>>
    /\ UNCHANGED <<tasks, cache_enabled, pending, wtask, futures, yielded, results,
                   completed_count, mainpc, yield_order, progress_calls>>
    /\ UNCHANGED cacheVars
    /\ UNCHANGED sideVars

\* variant: func is called inside the  with self.request_lock  block
RatePermitInsideLock(w) ==
    /\ wpc[w] = "rl_sleep"
    /\ now >= wloc[w].wake
    /\ last_request_time' = now
    /\ request_times' = Append(request_times, now)
    /\ request_lock' = w
    /\ wpc' = [wpc EXCEPT ![w] = "search"]
    /\ tasklog' = [tasklog EXCEPT ![wtask[w]].rate = "permitted"]
    /\ UNCHANGED <<wloc, now>>
    /\ UNCHANGED <<tasks, cache_enabled, pending, wtask, futures, yielded, results,
                   completed_count, mainpc, yield_order, progress_calls>>
    /\ UNCHANGED cacheVars
    /\ UNCHANGED sideVars

\* the sleep is over: last_request_time = time.time(), the lock is released
\* and search_armslist is called
RatePermit(w) ==
    /\ wpc[w] = "rl_sleep"
    /\ now >= wloc[w].wake
    /\ last_request_time' = now
    /\ request_times' = Append(request_times, now)
    /\ request_lock' = 0
    /\ wpc' = [wpc EXCEPT ![w] = "search"]
    /\ tasklog' = [tasklog EXCEPT ![wtask[w]].rate = "permitted"]
    /\ UNCHANGED <<wloc, now>>
    /\ UNCHANGED <<tasks, cache_enabled, pending, wtask, futures, yielded, results,
                   completed_count, mainpc, yield_order, progress_calls>>
    /\ UNCHANGED cacheVars
    /\ UNCHANGED sideVars

\* what search_armslist may do for a descriptor: a rejected descriptor raises
\* ValueError before any request; otherwise the request fails or a page of
\* listings is parsed
SearchOutcomesOver(task, pages) ==
    IF ~ValidationTable[DescOf(task)].is_valid
    THEN { [kind |-> "ValueError", listings |-> <<>>] }
    ELSE { [kind |-> "RequestException", listings |-> <<>>] }
         \cup { [kind |-> "ok", listings |-> L] : L \in pages }

SearchOutcomes(task) == SearchOutcomesOver(task, BatchListingPool)

\* search_armslist returns: cache.set builds cache_data (timestamp = time.time())
SearchReturns(w) ==
    /\ wpc[w] = "search"
    /\ \E o \in SearchOutcomes(Task(w)) :
          /\ o.kind = "ok"
          /\ wloc' = [wloc EXCEPT ![w].listings = o.listings, ![w].stamp = now]
          /\ wpc' = [wpc EXCEPT ![w] = "set_acquire"]
          /\ tasklog' = [tasklog EXCEPT ![wtask[w]].fetch = o.kind,
                                         ![wtask[w]].stamp = now,
                                         ![wtask[w]].fetched = o.listings]
    /\ UNCHANGED <<tasks, cache_enabled, pending, wtask, futures, yielded, results,
                   completed_count, mainpc, now>>
    /\ UNCHANGED cacheVars /\ UNCHANGED rateVars
    /\ UNCHANGED <<yield_order, progress_calls>>
    /\ UNCHANGED sideVars

\* variant: the except clauses cache the empty list they return, as the try
\* block does with fetched listings
SearchRaisesCaching(w) ==
    /\ wpc[w] = "search"
    /\ \E o \in SearchOutcomes(Task(w)) :
          /\ o.kind # "ok"
          /\ tasklog' = [tasklog EXCEPT ![wtask[w]].fetch = o.kind]
    /\ wloc' = [wloc EXCEPT ![w].listings = ListingsOnFetchError, ![w].stamp = now]
    /\ wpc' = [wpc EXCEPT ![w] = "set_acquire"]
    /\ UNCHANGED <<tasks, cache_enabled, pending, wtask, futures, yielded, results,
                   completed_count, mainpc, now>>
    /\ UNCHANGED cacheVars /\ UNCHANGED rateVars
    /\ UNCHANGED <<yield_order, progress_calls>>
    /\ UNCHANGED sideVars

\* search_armslist raises: the except clauses of _get_cached_or_fetch_listings
\* return an empty list, nothing is cached, and the task finishes
SearchRaises(w) ==
    /\ wpc[w] = "search"
    /\ \E o \in SearchOutcomes(Task(w)) :
          /\ o.kind # "ok"
          /\ tasklog' = [tasklog EXCEPT ![wtask[w]].fetch = o.kind]
    /\ Finish(w, ListingsOnFetchError)
    /\ UNCHANGED <<tasks, cache_enabled, pending, yielded, results, completed_count,
                   mainpc, now>>
    /\ UNCHANGED cacheVars /\ UNCHANGED rateVars
    /\ UNCHANGED <<yield_order, progress_calls>>
    /\ UNCHANGED sideVars

\* cache.set: with self.cache_lock
SetAcquire(w) ==
    /\ wpc[w] = "set_acquire"
    /\ cache_lock = 0
    /\ cache_lock' = w
    /\ wpc' = [wpc EXCEPT ![w] = "set_locked"]
    /\ UNCHANGED <<memory_cache, file_cache, wloc, now>>
    /\ UNCHANGED batchVars /\ UNCHANGED rateVars
    /\ UNCHANGED sideVars

\* variant: set() returns without releasing cache_lock
SetBodyKeepingLock(w) ==
    /\ wpc[w] = "set_locked"
    /\ \E outcome \in BatchWriteOutcomes :
          LET cache_data == CacheData(wloc[w].stamp, wloc[w].listings,
                                      Task(w).manufacturer, Task(w).model, Task(w).caliber)
          IN  /\ memory_cache' = MemoryAfterSet(memory_cache, TaskKey(w), cache_data)
              /\ file_cache' = FileAfterSet(file_cache, TaskKey(w), cache_data, outcome)
    /\ cache_lock' = w
    /\ Finish(w, wloc[w].listings)
    /\ UNCHANGED <<tasks, cache_enabled, pending, yielded, results, completed_count,
                   mainpc, now>>
    /\ tasklog' = [tasklog EXCEPT ![wtask[w]].stored = TRUE]
    /\ UNCHANGED rateVars
    /\ UNCHANGED <<yield_order, progress_calls>>
    /\ UNCHANGED sideVars

\* cache.set: memory entry and file are written, the lock is released, and the
\* task finishes with the fetched listings
SetBody(w) ==
    /\ wpc[w] = "set_locked"
    /\ \E outcome \in BatchWriteOutcomes :
          LET cache_data == CacheData(wloc[w].stamp, wloc[w].listings,
                                      Task(w).manufacturer, Task(w).model, Task(w).caliber)
          IN  /\ memory_cache' = MemoryAfterSet(memory_cache, TaskKey(w), cache_data)
              /\ file_cache' = FileAfterSet(file_cache, TaskKey(w), cache_data, outcome)
    /\ cache_lock' = 0
    /\ Finish(w, wloc[w].listings)
    /\ UNCHANGED <<tasks, cache_enabled, pending, yielded, results, completed_count,
                   mainpc, now>>
    /\ tasklog' = [tasklog EXCEPT ![wtask[w]].stored = TRUE]
    /\ UNCHANGED rateVars
    /\ UNCHANGED <<yield_order, progress_calls>>
    /\ UNCHANGED sideVars

\* as_completed yields a finished future; update_progress stores its result
Collect(i) ==
    /\ mainpc = "collect"
    /\ i \in DOMAIN futures /\ futures[i] # NoResult /\ i \notin yielded
    /\ yielded' = yielded \cup {i}
    /\ yield_order' = Append(yield_order, i)
    /\ completed_count' = completed_count + 1
    /\ LET written == [results EXCEPT
                          ![ResultSlot(futures[i], completed_count + 1)] = futures[i]]
       IN  /\ results' = written
           /\ progress_calls' = Append(progress_calls,
                  ProgressCall(completed_count + 1, tasks, written, futures[i]))
    /\ UNCHANGED <<tasks, cache_enabled, pending, wtask, wpc, wloc, futures, mainpc,
                   tasklog, now>>
    /\ UNCHANGED cacheVars /\ UNCHANGED rateVars
    /\ UNCHANGED sideVars

\* every future was yielded: the executor shuts down and results is returned
BatchReturn ==
    /\ mainpc = "collect"
    /\ yielded = DOMAIN futures
    /\ mainpc' = "done"
    /\ UNCHANGED <<tasks, cache_enabled, pending, wtask, wpc, wloc, futures, yielded,
                   results, completed_count, tasklog, now>>
    /\ UNCHANGED cacheVars /\ UNCHANGED rateVars
    /\ UNCHANGED <<yield_order, progress_calls>>
    /\ UNCHANGED sideVars

Sleeping(w) == wpc[w] = "rl_sleep" /\ now < wloc[w].wake

\* the clock advances; bounded unless a sleeping worker still waits for it
TickWithin(idle_ticks) ==
    /\ now < StartTime + idle_ticks \/ \E w \in Workers : Sleeping(w)
    /\ now' = now + 1
    /\ UNCHANGED <<wpc, wloc>>
    /\ UNCHANGED batchVars /\ UNCHANGED cacheVars /\ UNCHANGED rateVars
    /\ UNCHANGED sideVars

Tick == TickWithin(MaxIdleTicks)

WorkerStep(w) ==
    \/ WorkerStart(w)
    \/ LookupRaises(w)
    \/ GetAcquire(w)
    \/ GetHit(w)
    \/ GetMiss(w)
    \/ RateAcquire(w)
    \/ RatePermit(w)
    \/ SearchReturns(w)
    \/ SearchRaises(w)
    \/ SetAcquire(w)
    \/ SetBody(w)

Next ==
    \/ \E w \in Workers : WorkerStep(w)
    \/ \E i \in 1..Max(MaxTasks, MaxSameTasks) : Collect(i)
    \/ BatchReturn
    \/ Tick

Spec == Init /\ [][Next]_vars

\* ------------------------------------------------------------------------
\* A batch of listings of one firearm, more tasks than workers (SpecSame)
\* ------------------------------------------------------------------------
\* estimate_values_batch called for MaxSameTasks listings of the GLOCK 19 with
\* online sources, over an empty cache
InitSame ==
    /\ BatchStart(create_estimation_tasks([i \in 1..MaxSameTasks |-> DescGlockLoose], TRUE))
    /\ cache_enabled \in BOOLEAN
    /\ memory_cache = EmptyTier
    /\ file_cache = EmptyTier
    /\ cache_lock = 0
    /\ request_lock = 0
    /\ last_request_time = 0
    /\ now = StartTime
    /\ request_times = <<>>
    /\ SideIdle

TickSame == TickWithin(MaxSameIdleTicks)

\* the main thread's part of the batch
MainStep ==
    \/ \E i \in 1..Max(MaxTasks, MaxSameTasks) : Collect(i)
    \/ BatchReturn

NextSame ==
    \/ \E w \in Workers : WorkerStep(w)
    \/ MainStep
    \/ TickSame

SpecSame == InitSame /\ [][NextSame]_vars

\* that batch under fair scheduling: time passes, every pool thread that can
\* take a step eventually takes one (a marketplace call returns or raises, a
\* sleep ends, a free lock is taken), and so does the main thread
SpecFair ==
    /\ InitSame /\ [][NextSame]_vars
    /\ WF_vars(TickSame)
    /\ \A w \in Workers : WF_vars(WorkerStep(w))
    /\ WF_vars(MainStep)

\* ------------------------------------------------------------------------
\* The value computation applied to arbitrary inputs (SpecValue)
\* ------------------------------------------------------------------------
\* longest list of market listings handed to the value computation
MaxListings == 3

\* listings search_armslist can build: no price, or a price from $10 to $50,000
ValueListingPool ==
    {ListingUnpriced, Listing20, Listing480, Listing500, Listing520, Listing2500}

\* results of estimate_market_value: None, or the estimate of a descriptor
ValueAlgoPool == {NoAlgoResult} \cup { AlgoTable[d] : d \in AllDescriptors }

NotComputed == [computed |-> FALSE]

\* no batch was started
NoBatch ==
    /\ BatchStart(<<>>)
    /\ cache_enabled = TRUE
    /\ request_lock = 0
    /\ last_request_time = 0
    /\ request_times = <<>>

\* a new cache over an empty cache directory
CacheFresh ==
    /\ memory_cache = EmptyTier
    /\ file_cache = EmptyTier
    /\ cache_lock = 0
    /\ now = StartTime

InitValue ==
    /\ \E algo \in ValueAlgoPool, online \in BOOLEAN,
          listings \in SeqsOf(ValueListingPool, 0, MaxListings) :
          blend_io = [algo |-> algo, use_online_sources |-> online, listings |-> listings,
                      single |-> NotComputed, estimate |-> NotComputed]
    /\ clients = Unused
    /\ cache_log = Unused
    /\ store = Unused
    /\ NoBatch
    /\ CacheFresh

\* everything but blend_io
valueFrame == <<tasks, cache_enabled, pending, wtask, wpc, wloc, futures, yielded, results,
                completed_count, mainpc, memory_cache, file_cache, cache_lock,
                request_lock, last_request_time, now, request_times, tasklog,
                yield_order, progress_calls, clients, cache_log, store>>

\* the value computation of _estimate_single_value; listings is what
\* _get_cached_or_fetch_listings returned
ApplySingle ==
    /\ blend_io.single = NotComputed
    /\ blend_io' = [blend_io EXCEPT !.single =
                        SingleValueInfo(blend_io.algo, blend_io.use_online_sources,
                                        blend_io.listings)]
    /\ UNCHANGED valueFrame

\* the value computation of estimate_value; listings is what get_market_listings
\* returned (a cached list as either writer stored it, or the search results)
ApplyEstimate ==
    /\ blend_io.estimate = NotComputed
    /\ blend_io' = [blend_io EXCEPT !.estimate =
                        EstimateValueInfo(blend_io.algo, blend_io.use_online_sources,
                                          blend_io.listings)]
    /\ UNCHANGED valueFrame

NextValue ==
    \/ ApplySingle
    \/ ApplyEstimate

SpecValue == InitValue /\ [][NextValue]_vars

\* the value_infos computed so far
Computed == {blend_io.single, blend_io.estimate} \ {NotComputed}

\* C7: a value_info with an estimated_value has a value_range with
\* low >= MIN_VALUE and high >= low * 1.1 (the product rounded as the model
\* rounds it), hence low < high, on the heuristic-only, blended and
\* online-only paths of both functions.
C7_RangeInvariant ==
    \A v \in Computed :
        v.estimated_value # NoneVal =>
            /\ v.value_range # NoRange
            /\ v.value_range[1] >= MIN_VALUE
            /\ v.value_range[2] >= (v.value_range[1] * 11) \div 10
            /\ v.value_range[1] < v.value_range[2]

\* C7 witness: the online-only path of _estimate_single_value with a $20
\* listing: both safeguards acted (low is the floor, high is low * 1.1)
C7_OnlineOnlyFloored ==
    /\ ~blend_io.algo.present
    /\ blend_io.single # NotComputed
    /\ blend_io.single.estimated_value # NoneVal
    /\ blend_io.single.value_range = <<MIN_VALUE, (MIN_VALUE * 11) \div 10>>
    /\ \E i \in 1..Len(blend_io.listings) : blend_io.listings[i].price < MIN_VALUE
                                                /\ blend_io.listings[i].price # NoneVal

\* a priced market listing was blended into the estimate
PricedListingBlended ==
    /\ blend_io.use_online_sources
    /\ blend_io.algo.present
    /\ ValidPrices(FilterSuspicious(blend_io.listings)) # <<>>

\* C8 as stated: confidence is "high" exactly when a priced market listing
\* was blended in; otherwise the output is the heuristic alone, with
\* confidence "medium" and the source "Market Estimator".
C8_HighIffPricedListing ==
    \A v \in Computed :
        /\ v.confidence = "high" <=> PricedListingBlended
        /\ (blend_io.algo.present /\ ~PricedListingBlended) =>
              /\ v.confidence = "medium"
              /\ v.source = "Market Estimator"
              /\ v.estimated_value = blend_io.algo.avg_price

\* the market listings whose price entered the estimate of _estimate_single_value:
\* the priced ones that survive the filter, or, on the online-only path, every
\* priced one
ContributingSingle ==
    IF ~blend_io.use_online_sources THEN <<>>
    ELSE IF blend_io.algo.present THEN ValidPrices(FilterSuspicious(blend_io.listings))
    ELSE ValidPrices(blend_io.listings)

\* the market listings whose price entered the estimate of estimate_value
ContributingEstimate ==
    IF ~blend_io.use_online_sources THEN <<>>
    ELSE ValidPrices(FilterSuspicious(blend_io.listings))

\* the sample_size the contract asks for, given the contributing prices
ContractSampleSize(contributing) ==
    IF contributing = <<>> THEN NA ELSE Len(contributing)

\* C11 as stated: sample_size is the number of market listings that contributed
\* a price to the estimate, and the "N/A" marker when none contributed.
C11_SampleSizeCountsContributors ==
    /\ blend_io.single # NotComputed =>
          blend_io.single.sample_size = ContractSampleSize(ContributingSingle)
    /\ blend_io.estimate # NotComputed =>
          blend_io.estimate.sample_size = ContractSampleSize(ContributingEstimate)

\* C12: when the heuristic price h is present and the listings that survive
\* the filter carry prices with mean m, then estimated_value is
\* b = max(0.7 * max(m, 50) + 0.3 * h, 50), the range is
\* (max(b * (0.85 - adj/2), 50), max(b * (1.15 + adj/2), 1.1 * low)) with
\* adj = min(|b - h| / h, 0.3), and confidence is "high"; prices 500, 520, 480
\* with h = 450 give the estimate 485.  Amounts are in cents, adj in 1/1000.
C12_BlendFormula ==
    \A v \in Computed :
        (blend_io.algo.present /\ blend_io.use_online_sources
            /\ ValidPrices(FilterSuspicious(blend_io.listings)) # <<>>) =>
        LET prices == ValidPrices(FilterSuspicious(blend_io.listings))
            h    == blend_io.algo.avg_price
            mean == SumSeq(prices) \div Len(prices)
            m    == IF mean > 5000 THEN mean ELSE 5000
            b0   == (7 * m + 3 * h) \div 10
            b    == IF b0 > 5000 THEN b0 ELSE 5000
            dev  == IF b > h THEN b - h ELSE h - b
            adj0 == (dev * 1000) \div h
            adj  == IF adj0 < 300 THEN adj0 ELSE 300
            low0 == (b * (1700 - adj)) \div 2000
            low  == IF low0 > 5000 THEN low0 ELSE 5000
            hi0  == (b * (2300 + adj)) \div 2000
            hi1  == (low * 11) \div 10
            high == IF hi0 > hi1 THEN hi0 ELSE hi1
        IN  /\ v.estimated_value = b
            /\ v.value_range = <<low, high>>
            /\ v.confidence = "high"
            /\ (h = 45000 /\ blend_io.listings = <<Listing500, Listing520, Listing480>>)
                  => (mean = 50000 /\ v.estimated_value = 48500)

\* C12 witness: the scenario of the contract went through both functions:
\* listings at $500, $520 and $480 with a heuristic of $450 gave $485
C12_ScenarioBlended ==
    /\ blend_io.algo.present /\ blend_io.algo.avg_price = 45000
    /\ blend_io.use_online_sources
    /\ blend_io.listings = <<Listing500, Listing520, Listing480>>
    /\ blend_io.single # NotComputed /\ blend_io.estimate # NotComputed
    /\ blend_io.single.estimated_value = 48500
    /\ blend_io.estimate.estimated_value = 48500
    /\ blend_io.single.confidence = "high"

\* C14: estimated_value is absent exactly when confidence is "none"; that
\* outcome has no value_range and no market_listings and is sourced
\* "No data available"; every outcome with an estimated_value has confidence
\* "medium" or "high".
C14_AbsentIffNone ==
    \A v \in Computed :
        /\ (v.estimated_value = NoneVal) <=> (v.confidence = "none")
        /\ v.confidence = "none" =>
              /\ v.value_range = NoRange
              /\ v.market_listings = <<>>
              /\ v.source = "No data available"
        /\ v.estimated_value # NoneVal => v.confidence \in {"medium", "high"}

\* C14 witness: with no heuristic result and only an unpriced listing on the
\* market, both functions reported the "No data available" outcome
C14_NoDataReported ==
    /\ ~blend_io.algo.present
    /\ blend_io.use_online_sources
    /\ blend_io.listings # <<>>
    /\ blend_io.single # NotComputed /\ blend_io.estimate # NotComputed
    /\ blend_io.single.estimated_value = NoneVal
    /\ blend_io.single.confidence = "none"
    /\ blend_io.estimate.confidence = "none"

\* ------------------------------------------------------------------------
\* Threads calling MarketListingsCache directly (SpecCache)
\* ------------------------------------------------------------------------
\* threads sharing the cache
NumClients == 2

\* calls of set / get / clear_expired issued in one run
MaxCacheOps == 3

\* the clock runs this many ticks past StartTime
MaxCacheTicks == 2

Clients == 1..NumClients

\* arguments of set(): two different lists for the GLOCK 19
SetArgs(d, L) == [desc |-> d, listings |-> L]

SetArgPool == { SetArgs(DescGlock, <<>>), SetArgs(DescGlock, <<Listing500>>) }

\* arguments of get(): the GLOCK 19 in another spelling, and a key never set
GetDescPool == {DescGlockLoose, DescShield}

IdleClient == [pc |-> "idle", desc |-> DescEmpty, listings |-> <<>>, stamp |-> 0]

NoGet == [none |-> TRUE]

NoClear == [none |-> TRUE]

InitCache ==
    /\ clients = [t \in Clients |-> IdleClient]
    /\ cache_log = [last_set |-> EmptyTier, last_get |-> NoGet, last_clear |-> NoClear,
                    ops |-> 0]
    /\ memory_cache = EmptyTier
    /\ file_cache \in InitialFileCaches
    /\ cache_lock = 0
    /\ now = StartTime
    /\ blend_io = Unused
    /\ store = Unused
    /\ NoBatch

\* what the cache threads leave alone
cacheFrame == <<tasks, cache_enabled, pending, wtask, wpc, wloc, futures, yielded, results,
                completed_count, mainpc, request_lock, last_request_time, request_times,
                tasklog, yield_order, progress_calls, blend_io, store>>

\* an idle thread issues the next call (threads are interchangeable: of the
\* idle ones the lowest-numbered issues it)
MayCall(t) ==
    /\ clients[t].pc = "idle"
    /\ \A u \in Clients : clients[u].pc = "idle" => t <= u
    /\ cache_log.ops < MaxCacheOps

\* set(): cache_key and cache_data (timestamp = time.time()) are built before
\* the lock is requested
CacheSetCall(t) ==
    /\ MayCall(t)
    /\ \E a \in SetArgPool :
          clients' = [clients EXCEPT ![t] = [pc |-> "set_stamped", desc |-> a.desc,
                                             listings |-> a.listings, stamp |-> now]]
    /\ cache_log' = [cache_log EXCEPT !.ops = @ + 1]
    /\ UNCHANGED <<memory_cache, file_cache, cache_lock, now>>
    /\ UNCHANGED cacheFrame

\* set(): with self.cache_lock
CacheSetAcquire(t) ==
    /\ clients[t].pc = "set_stamped"
    /\ cache_lock = 0
    /\ cache_lock' = t
    /\ clients' = [clients EXCEPT ![t].pc = "set_locked"]
    /\ UNCHANGED <<memory_cache, file_cache, now, cache_log>>
    /\ UNCHANGED cacheFrame

\* set(): memory entry stored, file written (or the write fails), lock released
CacheSetBody(t) ==
    /\ clients[t].pc = "set_locked"
    /\ LET c  == clients[t]
           cache_key  == KeyTable[c.desc]
           cache_data == CacheData(c.stamp, c.listings, c.desc.manufacturer,
                                   c.desc.model, c.desc.caliber)
       IN  /\ memory_cache' = MemoryAfterSet(memory_cache, cache_key, cache_data)
           /\ \E outcome \in WriteOutcomes :
                 file_cache' = FileAfterSet(file_cache, cache_key, cache_data, outcome)
           /\ cache_log' = [cache_log EXCEPT !.last_set[cache_key] = cache_data]
    /\ cache_lock' = 0
    /\ clients' = [clients EXCEPT ![t] = IdleClient]
    /\ UNCHANGED now
    /\ UNCHANGED cacheFrame

\* get(): cache_key computed, with self.cache_lock
CacheGetAcquire(t) ==
    /\ MayCall(t)
    /\ cache_lock = 0
    /\ cache_lock' = t
    /\ \E d \in GetDescPool :
          clients' = [clients EXCEPT ![t] = [IdleClient EXCEPT !.pc = "get_locked",
                                                               !.desc = d]]
    /\ cache_log' = [cache_log EXCEPT !.ops = @ + 1]
    /\ UNCHANGED <<memory_cache, file_cache, now>>
    /\ UNCHANGED cacheFrame

\* get(): the body and the release of the lock; last_get records the call
CacheGetBody(t) ==
    /\ clients[t].pc = "get_locked"
    /\ LET cache_key == KeyTable[clients[t].desc]
           g == CacheGet(memory_cache, file_cache, cache_key, now)
       IN  /\ memory_cache' = g.mem
           /\ file_cache' = g.files
           /\ cache_log' = [cache_log EXCEPT !.last_get =
                  [key |-> cache_key, time |-> now, result |-> g.result,
                   desc        |-> clients[t].desc,
                   sets        |-> cache_log.last_set,
                   latest      |-> cache_log.last_set[cache_key],
                   mem_before  |-> memory_cache[cache_key],
                   file_before |-> file_cache[cache_key],
                   mem_after   |-> g.mem[cache_key],
                   file_after  |-> g.files[cache_key]]]
    /\ cache_lock' = 0
    /\ clients' = [clients EXCEPT ![t] = IdleClient]
    /\ UNCHANGED now
    /\ UNCHANGED cacheFrame

\* clear_expired(): with self.cache_lock
CacheClearAcquire(t) ==
    /\ MayCall(t)
    /\ cache_lock = 0
    /\ cache_lock' = t
    /\ clients' = [clients EXCEPT ![t].pc = "clear_locked"]
    /\ cache_log' = [cache_log EXCEPT !.ops = @ + 1]
    /\ UNCHANGED <<memory_cache, file_cache, now>>
    /\ UNCHANGED cacheFrame

\* clear_expired(): the body and the release of the lock; last_clear records
\* the call
CacheClearBody(t) ==
    /\ clients[t].pc = "clear_locked"
    /\ LET c == ClearExpired(memory_cache, file_cache, now)
       IN  /\ memory_cache' = c.mem
           /\ file_cache' = c.files
           /\ cache_log' = [cache_log EXCEPT !.last_clear =
                  [time |-> now, removed_count |-> c.removed_count,
                   mem_before   |-> memory_cache,
                   files_before |-> file_cache,
                   mem_after    |-> c.mem,
                   files_after  |-> c.files]]
    /\ cache_lock' = 0
    /\ clients' = [clients EXCEPT ![t] = IdleClient]
    /\ UNCHANGED now
    /\ UNCHANGED cacheFrame

CacheTick ==
    /\ now < StartTime + MaxCacheTicks
    /\ now' = now + 1
    /\ UNCHANGED <<memory_cache, file_cache, cache_lock, clients, cache_log>>
    /\ UNCHANGED cacheFrame

ClientStep(t) ==
    \/ CacheSetCall(t)
    \/ CacheSetAcquire(t)
    \/ CacheSetBody(t)
    \/ CacheGetAcquire(t)
    \/ CacheGetBody(t)
    \/ CacheClearAcquire(t)
    \/ CacheClearBody(t)

NextCache ==
    \/ \E t \in Clients : ClientStep(t)
    \/ CacheTick

SpecCache == InitCache /\ [][NextCache]_vars

\* a record that exists, is readable and is younger than the TTL at that time
ValidRecord(record, time) ==
    record # NoEntry /\ record # Corrupt /\ _is_cache_valid(record, time)

C6_NoInvalidRecordServed ==
    LET g == cache_log.last_get IN
    g # NoGet =>
        /\ g.result.hit =>
              \/ ValidRecord(g.mem_before, g.time)
                    /\ g.result = Hit(g.mem_before.listings)
              \/ ~ValidRecord(g.mem_before, g.time) /\ ValidRecord(g.file_before, g.time)
                    /\ g.result = Hit(g.file_before.listings)
        /\ (~ValidRecord(g.mem_before, g.time) /\ ~ValidRecord(g.file_before, g.time))
              => /\ g.result = Absent
                 /\ g.mem_after = NoEntry
                 /\ g.file_after = NoEntry
        /\ (g.mem_before # NoEntry /\ ~ValidRecord(g.mem_before, g.time))
              => g.mem_after # g.mem_before
        /\ ~g.result.hit => (g.mem_after = NoEntry /\ g.file_after = NoEntry)

\* C6 witness: a get found an expired memory entry and an expired or unreadable
\* cache file, returned absent and left the key in neither tier
C6_ExpiredRemoved ==
    LET g == cache_log.last_get IN
    /\ g # NoGet
    /\ g.mem_before # NoEntry
    /\ g.file_before # NoEntry
    /\ g.result = Absent
    /\ memory_cache[g.key] = NoEntry
    /\ file_cache[g.key] = NoEntry

\* the last clear_expired removed from a tier exactly the records that were
\* expired or unreadable at that time
SweptTier(before, after, time) ==
    \A k \in DOMAIN before :
        after[k] = (IF before[k] # NoEntry /\ ~ValidRecord(before[k], time)
                    THEN NoEntry ELSE before[k])

\* the fingerprints of which the last clear_expired removed a record
SweptFingerprints ==
    LET c == cache_log.last_clear IN
    { k \in CacheKeys : c.mem_after[k] # c.mem_before[k]
                            \/ c.files_after[k] # c.files_before[k] }

\* C23 as stated: clear_expired removes every expired or unreadable entry from
\* both tiers, leaves every unexpired readable entry in place, and returns the
\* number of cache entries (fingerprints) it removed.
C23_ClearCountsFingerprints ==
    LET c == cache_log.last_clear IN
    c # NoClear =>
        /\ SweptTier(c.mem_before, c.mem_after, c.time)
        /\ SweptTier(c.files_before, c.files_after, c.time)
        /\ c.removed_count = Cardinality(SweptFingerprints)

\* what clear_expired does: the sweep is as stated, and the number returned is
\* the number of memory entries removed plus the number of files removed
ClearCountsRecords ==
    LET c == cache_log.last_clear IN
    c # NoClear =>
        /\ SweptTier(c.mem_before, c.mem_after, c.time)
        /\ SweptTier(c.files_before, c.files_after, c.time)
        /\ c.removed_count
              = Cardinality({ k \in CacheKeys : c.mem_after[k] # c.mem_before[k] })
                + Cardinality({ k \in CacheKeys : c.files_after[k] # c.files_before[k] })

\* C24: a set whose write to the cache directory failed still completes (the
\* caller sees no exception), and a get for the same key within the TTL
\* returns the listings of that set, taken from the memory entry and never
\* from the older or damaged file the failed write left behind; the get leaves
\* both tiers as they were.
C24_FailedWriteServedFromMemory ==
    LET g == cache_log.last_get IN
    (g # NoGet /\ ValidRecord(g.latest, g.time) /\ g.file_before # g.latest) =>
        /\ g.result = Hit(g.latest.listings)
        /\ g.mem_before = g.latest
        /\ g.mem_after = g.latest
        /\ g.file_after = g.file_before

\* C24 witness: the write of the last set failed before anything was written,
\* so the cache directory still held the valid record of the earlier run with
\* other listings, and the get returned the listings of the set
C24_OlderFileNotServed ==
    LET g == cache_log.last_get IN
    /\ g # NoGet
    /\ ValidRecord(g.latest, g.time)
    /\ g.file_before = EarlierRecord
    /\ ValidRecord(g.file_before, g.time)
    /\ g.latest.listings # EarlierRecord.listings
    /\ g.result = Hit(g.latest.listings)
    /\ \A t \in Clients : clients[t] = IdleClient

\* C27: a get that finds no valid memory entry but a valid cache file returns
\* the listings of the file and makes the decoded record the memory entry,
\* with the same listings and the timestamp of the original write (the age of
\* the entry does not start again); the file stays.  A get that finds a valid
\* memory entry, such as one put there by an earlier get, is served from it
\* and changes nothing.
C27_PromotedWithOriginalTimestamp ==
    LET g == cache_log.last_get IN
    g # NoGet =>
        /\ (~ValidRecord(g.mem_before, g.time) /\ ValidRecord(g.file_before, g.time)) =>
              /\ g.result = Hit(g.file_before.listings)
              /\ g.mem_after = g.file_before
              /\ g.mem_after.timestamp = g.file_before.timestamp
              /\ g.file_after = g.file_before
        /\ ValidRecord(g.mem_before, g.time) =>
              /\ g.result = Hit(g.mem_before.listings)
              /\ g.mem_after = g.mem_before
              /\ g.file_after = g.file_before

\* C27 witness: a get was served from the memory entry that an earlier get
\* had loaded from the cache file of the earlier run; the entry still carries
\* the timestamp of that run, one tick before this one started
C27_ServedFromPromotedEntry ==
    LET g == cache_log.last_get IN
    /\ g # NoGet
    /\ g.latest = NoEntry
    /\ g.mem_before = EarlierRecord
    /\ g.mem_before.timestamp = StartTime - 1
    /\ g.result = Hit(EarlierRecord.listings)
    /\ memory_cache[g.key] = EarlierRecord

\* the upper-cased, trimmed fields of a descriptor
NormalizedFields(d) ==
    <<PyStrip(PyUpper(d.manufacturer)), PyStrip(PyUpper(d.model)),
      PyStrip(PyUpper(d.caliber))>>

\* NormalizedFields tabulated over the descriptor pool
NormalizedTable == [d \in AllDescriptors |-> NormalizedFields(d)]

\* the upper-cased, trimmed fields of two descriptors agree pairwise
NormalizedAgree(d, e) == NormalizedTable[d] = NormalizedTable[e]

\* C15: a get addresses the entry of every descriptor whose upper-cased,
\* trimmed fields agree with its own: the two keys are equal, and when the set
\* that last completed under the other spelling is younger than the TTL the get
\* returns the listings of that set.
C15_NormalizedKeysAgree ==
    LET g == cache_log.last_get IN
    g # NoGet =>
        \A d \in AllDescriptors :
            NormalizedAgree(d, g.desc) =>
                /\ KeyTable[d] = g.key
                /\ ValidRecord(g.sets[KeyTable[d]], g.time) =>
                      g.result = Hit(g.sets[KeyTable[d]].listings)

\* C15 witness: get("Glock", " 19 ", "9mm") returned the listing stored by
\* set("GLOCK", "19", "9MM", L)
C15_LooseSpellingHit ==
    LET g == cache_log.last_get IN
    /\ g # NoGet
    /\ g.desc = DescGlockLoose
    /\ ValidRecord(g.latest, g.time)
    /\ g.latest.manufacturer = "GLOCK" /\ g.latest.model = "19" /\ g.latest.caliber = "9MM"
    /\ g.latest.listings = <<Listing500>>
    /\ g.result = Hit(<<Listing500>>)

\* ------------------------------------------------------------------------
\* app.py : store_listings (SpecStore)
\* ------------------------------------------------------------------------
\* if use_online and len(listings) > 10: the concurrent path
ConcurrentThreshold == 10

\* VARCHAR_LIMITS of the text columns
VARCHAR_LIMIT == 30

\* longest batch of listings below the threshold
MaxShortBatch == 2

\* descriptors of the scraped listings (price, description and condition of a
\* FirearmListing take no part in the estimate and are left out)
StoreDescPool == {DescGlockLoose, DescShield, DescEmpty}

\* a batch above the threshold: first and last listing vary
LongBatches ==
    { [i \in 1..(ConcurrentThreshold + 1) |->
          IF i = 1 THEN d1 ELSE IF i = ConcurrentThreshold + 1 THEN d2 ELSE DescShield]
      : d1 \in BatchDescPool, d2 \in BatchDescPool }

StoreBatches == SeqsOf(StoreDescPool, 0, MaxShortBatch) \cup LongBatches

\* result pages the marketplace may answer with on the sequential path
StoreListingPool == { <<ListingUnpriced>>, <<Listing520, Listing500>> }

\* generate_listing_hash, taken to be injective on the descriptor
generate_listing_hash(listing) ==
    listing.manufacturer \o "|" \o listing.model \o "|" \o listing.caliber

\* value[:limit] if value else None
Column(value) == IF value = "" THEN "None" ELSE Truncate(value, VARCHAR_LIMIT)

\* the record built from a value_info
ValueRecord(listing, value_info) ==
    [manufacturer     |-> Column(listing.manufacturer),
     model            |-> Column(listing.model),
     caliber          |-> Column(listing.caliber),
     estimated_value  |-> value_info.estimated_value,
     value_source     |-> Column(value_info.source),
     value_confidence |-> value_info.confidence,
     listing_hash     |-> generate_listing_hash(listing)]

\* "Fallback for failed estimates"
FailedRecord(listing) ==
    [manufacturer     |-> Column(listing.manufacturer),
     model            |-> Column(listing.model),
     caliber          |-> Column(listing.caliber),
     estimated_value  |-> NoneVal,
     value_source     |-> "Estimation failed",
     value_confidence |-> "none",
     listing_hash     |-> generate_listing_hash(listing)]

\* the record store_listings builds from results[i] on the concurrent path
ResultRecord(listing, result) ==
    IF result.success /\ result.value_info # NoValueInfo
    THEN ValueRecord(listing, result.value_info)
    ELSE FailedRecord(listing)

\* price is not None and price > 0
PositivePrice(l) == l.price # NoneVal /\ l.price > 0

RECURSIVE InsertByPrice(_, _)
InsertByPrice(sorted, l) ==
    IF sorted = <<>> THEN <<l>>
    ELSE IF l.price < Head(sorted).price THEN <<l>> \o sorted
    ELSE <<Head(sorted)>> \o InsertByPrice(Tail(sorted), l)

\* sorted(valid_listings, key=lambda x: x["price"]): stable, lowest first
RECURSIVE SortByPrice(_)
SortByPrice(listings) ==
    IF listings = <<>> THEN <<>>
    ELSE InsertByPrice(SortByPrice(SubSeq(listings, 1, Len(listings) - 1)),
                       listings[Len(listings)])

\* listing["avg_price"] = avg_price for every listing when there are three or more
WithAvgPrice(listings) ==
    IF Len(listings) >= 3
    THEN LET avg == SumSeq(ValidPrices(listings)) \div Len(listings)
         IN  [i \in 1..Len(listings) |-> listings[i] @@ [avg_price |-> avg]]
    ELSE listings

\* what get_market_listings makes of the search results
ProcessListings(armslist_results) ==
    WithAvgPrice(SortByPrice(SelectSeq(armslist_results, PositivePrice)))

InitStore ==
    /\ \E listings \in StoreBatches, use_online \in BOOLEAN, enable_caching \in BOOLEAN :
          store = [pc |-> "start", listings |-> listings, use_online |-> use_online,
                   enable_caching |-> enable_caching, db_records |-> <<>>,
                   inserted |-> <<>>, error |-> NoError]
    /\ memory_cache = EmptyTier
    /\ file_cache \in InitialFileCaches
    /\ cache_lock = 0
    /\ now = StartTime
    /\ NoBatch
    /\ blend_io = Unused
    /\ clients = Unused
    /\ cache_log = Unused

storeFrame == <<blend_io, clients, cache_log>>

\* the concurrent path: tasks created, estimator configured, the batch submitted
StoreBeginConcurrent ==
    /\ store.pc = "start"
    /\ store.use_online /\ Len(store.listings) > ConcurrentThreshold
    /\ store' = [store EXCEPT !.pc = "batch"]
    /\ LET batch == create_estimation_tasks(store.listings, store.use_online) IN
       /\ tasks' = batch
       /\ pending' = [i \in 1..Len(batch) |-> i]
       /\ futures' = [i \in 1..Len(batch) |-> NoResult]
       /\ results' = [i \in 1..Len(batch) |-> NoResult]
       /\ tasklog' = [i \in 1..Len(batch) |-> NoLog]
    /\ cache_enabled' = store.enable_caching
    /\ wtask' = [w \in Workers |-> 0]
    /\ wpc' = [w \in Workers |-> "idle"]
    /\ wloc' = [w \in Workers |-> NoLocals]
    /\ yielded' = {}
    /\ yield_order' = <<>>
    /\ progress_calls' = <<>>
    /\ completed_count' = 0
    /\ mainpc' = "collect"
    /\ request_lock' = 0
    /\ last_request_time' = 0
    /\ request_times' = <<>>
    /\ UNCHANGED <<memory_cache, file_cache, cache_lock, now>>
    /\ UNCHANGED storeFrame

\* the sequential path is taken
StoreBeginSequential ==
    /\ store.pc = "start"
    /\ ~(store.use_online /\ Len(store.listings) > ConcurrentThreshold)
    /\ store' = [store EXCEPT !.pc = "sequential"]
    /\ UNCHANGED <<now, tasklog, yield_order, progress_calls>>
    /\ UNCHANGED <<tasks, cache_enabled, pending, wtask, wpc, wloc, futures, yielded,
                   results, completed_count, mainpc>>
    /\ UNCHANGED cacheVars /\ UNCHANGED rateVars
    /\ UNCHANGED storeFrame

\* the pool works one task at a time and the main thread has collected every
\* finished future before the next task starts
OneAtATime ==
    /\ \A w \in Workers : wpc[w] = "idle"
    /\ yielded = { i \in DOMAIN futures : futures[i] # NoResult }

\* estimate_values_batch runs inside store_listings
StoreBatchStep ==
    /\ store.pc = "batch"
    /\ \/ \E w \in Workers : (wpc[w] = "idle" => OneAtATime) /\ WorkerStep(w)
       \/ \E i \in DOMAIN futures : Collect(i)
       \/ BatchReturn
       \/ Tick

\* results are turned into records, in the order of the listings
StoreBuildRecords ==
    /\ store.pc = "batch"
    /\ mainpc = "done"
    /\ store' = [store EXCEPT
          !.pc = "built",
          !.db_records = [i \in 1..Len(store.listings) |->
                              ResultRecord(store.listings[i], results[i])]]
    /\ UNCHANGED <<now, wpc, wloc>>
    /\ UNCHANGED batchVars /\ UNCHANGED cacheVars /\ UNCHANGED rateVars
    /\ UNCHANGED storeFrame

\* the listing the sequential loop is at
SeqListing == store.listings[Len(store.db_records) + 1]

\* estimate_value for the next listing, up to the cache lookup of
\* get_market_listings: a rejected descriptor raises ValueError, which nothing in
\* store_listings catches; offline, or on a cache hit, the record is appended
StoreSeqEstimate ==
    /\ store.pc = "sequential"
    /\ Len(store.db_records) < Len(store.listings)
    /\ LET l == SeqListing
           v == ValidationTable[l]
       IN  IF ~v.is_valid
           THEN /\ store' = [store EXCEPT
                      !.pc = "raised",
                      !.error = "Invalid parameters for value estimation: "
                                   \o v.error_message]
                /\ UNCHANGED <<memory_cache, file_cache>>
           ELSE IF ~store.use_online
           THEN /\ store' = [store EXCEPT !.db_records = Append(@,
                      ValueRecord(l, EstimateValueInfo(AlgoTable[v.cleaned_value],
                                                       FALSE, <<>>)))]
                /\ UNCHANGED <<memory_cache, file_cache>>
           ELSE LET g == CacheGet(memory_cache, file_cache, KeyTable[v.cleaned_value], now)
                IN  /\ memory_cache' = g.mem
                    /\ file_cache' = g.files
                    /\ IF g.result.hit
                       THEN store' = [store EXCEPT !.db_records = Append(@,
                               ValueRecord(l, EstimateValueInfo(AlgoTable[v.cleaned_value],
                                                                TRUE, g.result.listings)))]
                       ELSE store' = [store EXCEPT !.pc = "seq_fetch"]
    /\ UNCHANGED <<cache_lock, now, wpc, wloc>>
    /\ UNCHANGED batchVars /\ UNCHANGED rateVars
    /\ UNCHANGED storeFrame

\* get_market_listings after a cache miss: search_armslist (its exceptions give
\* an empty list), the priced listings sorted and cached if there are any; then
\* the rest of estimate_value, and the record is appended
StoreSeqFetch ==
    /\ store.pc = "seq_fetch"
    /\ LET l == SeqListing
           d == ValidationTable[l].cleaned_value
       IN  \E o \in SearchOutcomesOver(d, StoreListingPool), outcome \in WriteOutcomes :
              LET all_listings == ProcessListings(o.listings)
                  cache_data   == CacheData(now, all_listings, d.manufacturer, d.model,
                                            d.caliber)
              IN  /\ IF all_listings # <<>>
                     THEN /\ memory_cache' = MemoryAfterSet(memory_cache, KeyTable[d], cache_data)
                          /\ file_cache' = FileAfterSet(file_cache, KeyTable[d], cache_data,
                                                        outcome)
                     ELSE UNCHANGED <<memory_cache, file_cache>>
                  /\ store' = [store EXCEPT
                        !.pc = "sequential",
                        !.db_records = Append(@,
                            ValueRecord(l, EstimateValueInfo(AlgoTable[d], TRUE,
                                                             all_listings)))]
    /\ UNCHANGED <<cache_lock, now, wpc, wloc>>
    /\ UNCHANGED batchVars /\ UNCHANGED rateVars
    /\ UNCHANGED storeFrame

\* the sequential loop is over
StoreSeqDone ==
    /\ store.pc = "sequential"
    /\ Len(store.db_records) = Len(store.listings)
    /\ store' = [store EXCEPT !.pc = "built"]
    /\ UNCHANGED <<now, wpc, wloc>>
    /\ UNCHANGED batchVars /\ UNCHANGED cacheVars /\ UNCHANGED rateVars
    /\ UNCHANGED storeFrame

\* the records are inserted and store_listings returns len(db_records)
StoreInsert ==
    /\ store.pc = "built"
    /\ store' = [store EXCEPT !.pc = "returned", !.inserted = store.db_records]
    /\ UNCHANGED <<now, wpc, wloc>>
    /\ UNCHANGED batchVars /\ UNCHANGED cacheVars /\ UNCHANGED rateVars
    /\ UNCHANGED storeFrame

\* time passes between two listings of the sequential loop
StoreTick ==
    /\ store.pc \in {"sequential", "seq_fetch"}
    /\ now < StartTime + MaxIdleTicks + 1
    /\ now' = now + 1
    /\ UNCHANGED <<store, wpc, wloc>>
    /\ UNCHANGED batchVars /\ UNCHANGED cacheVars /\ UNCHANGED rateVars
    /\ UNCHANGED storeFrame

NextStore ==
    \/ StoreBeginConcurrent
    \/ StoreBeginSequential
    \/ StoreBatchStep
    \/ StoreBuildRecords
    \/ StoreSeqEstimate
    \/ StoreSeqFetch
    \/ StoreSeqDone
    \/ StoreInsert
    \/ StoreTick

SpecStore == InitStore /\ [][NextStore]_vars

\* C10 as stated: store_listings never aborts, and when it returns it has
\* inserted exactly one record per input listing, the i-th record being the one
\* of the i-th listing, on the concurrent and on the sequential path.
C10_OneRecordPerListing ==
    /\ store.pc # "raised"
    /\ store.pc = "returned" =>
          /\ Len(store.inserted) = Len(store.listings)
          /\ \A i \in 1..Len(store.listings) :
                store.inserted[i].listing_hash = generate_listing_hash(store.listings[i])

\* ------------------------------------------------------------------------
\* One listing taken through the heuristic and through either path of
\* store_listings, on a cold cache (SpecPaths)
\* ------------------------------------------------------------------------
\* longest page of listings the marketplace holds for the firearm
MaxPathListings == 2

\* a manufacturer and a caliber that are in neither table
DescUnknown == Descriptor("Acme", "X1", "11MM")

PathDescPool == {DescGlock, DescGlockLoose, DescShield, DescRemington, DescUnknown}

PathListingPool == {ListingUnpriced, Listing500, Listing20}

\* a call that raised / a call that returned value
Raised(kind, message) == [raised |-> TRUE, kind |-> kind, error |-> message]

Returned(value) == [raised |-> FALSE, value |-> value]

\* _get_cached_or_fetch_listings on a cache miss: what search_armslist found,
\* or [] when it raised ValueError for a rejected descriptor
ConcurrentListings(d, available) ==
    IF ~validate_search_params(d.manufacturer, d.model, d.caliber).is_valid
    THEN ListingsOnFetchError
    ELSE available

\* _estimate_single_value for the task of a listing
ConcurrentEstimate(d, use_online_sources, available) ==
    Returned(SingleValueInfo(estimate_market_value(d.manufacturer, d.model, d.caliber),
                             use_online_sources, ConcurrentListings(d, available)))

\* estimate_value for a listing: validation, then the cleaned parameters go to
\* get_market_listings and to estimate_market_value
SequentialEstimate(d, use_online_sources, available) ==
    LET v == validate_search_params(d.manufacturer, d.model, d.caliber) IN
    IF ~v.is_valid
    THEN Raised("ValueError",
                "Invalid parameters for value estimation: " \o v.error_message)
    ELSE LET c == v.cleaned_value IN
         Returned(EstimateValueInfo(
                      estimate_market_value(c.manufacturer, c.model, c.caliber),
                      use_online_sources, ProcessListings(available)))

\* the fields of a record that are derived from the value_info
DerivedFields(value_info) ==
    [estimated_value |-> value_info.estimated_value,
     value_range     |-> value_info.value_range,
     sample_size     |-> value_info.sample_size,
     source          |-> value_info.source,
     confidence      |-> value_info.confidence]

InitPaths ==
    /\ \E d \in PathDescPool, online \in BOOLEAN,
          available \in SeqsOf(PathListingPool, 0, MaxPathListings) :
          blend_io = [desc |-> d, use_online_sources |-> online, available |-> available,
                      heuristic |-> NotComputed, concurrent |-> NotComputed,
                      sequential |-> NotComputed]
    /\ clients = Unused
    /\ cache_log = Unused
    /\ store = Unused
    /\ NoBatch
    /\ CacheFresh

\* estimate_market_value(manufacturer, model, caliber)
ApplyHeuristic ==
    /\ blend_io.heuristic = NotComputed
    /\ blend_io' = [blend_io EXCEPT !.heuristic =
                        estimate_market_value(blend_io.desc.manufacturer,
                                              blend_io.desc.model, blend_io.desc.caliber)]
    /\ UNCHANGED valueFrame

\* the listing is estimated as a task of the concurrent estimator
ApplyConcurrent ==
    /\ blend_io.concurrent = NotComputed
    /\ blend_io' = [blend_io EXCEPT !.concurrent =
                        ConcurrentEstimate(blend_io.desc, blend_io.use_online_sources,
                                           blend_io.available)]
    /\ UNCHANGED valueFrame

\* the listing is estimated by estimate_value
ApplySequential ==
    /\ blend_io.sequential = NotComputed
    /\ blend_io' = [blend_io EXCEPT !.sequential =
                        SequentialEstimate(blend_io.desc, blend_io.use_online_sources,
                                           blend_io.available)]
    /\ UNCHANGED valueFrame

NextPaths ==
    \/ ApplyHeuristic
    \/ ApplyConcurrent
    \/ ApplySequential

SpecPaths == InitPaths /\ [][NextPaths]_vars

\* C13: for every descriptor, known to the tables or not, estimate_market_value
\* returns a result (never None, never an exception) whose price is at least
\* MIN_VALUE, whose range has low >= MIN_VALUE and high >= low * 1.1, and whose
\* sample marker is 0.
C13_HeuristicAlwaysPriced ==
    blend_io.heuristic # NotComputed =>
        /\ blend_io.heuristic.present
        /\ blend_io.heuristic.avg_price >= MIN_VALUE
        /\ blend_io.heuristic.range_low >= MIN_VALUE
        /\ blend_io.heuristic.range_high >= (blend_io.heuristic.range_low * 11) \div 10
        /\ blend_io.heuristic.sample_size = 0

\* C13 witness: a firearm of an unknown manufacturer in an unknown caliber was
\* priced at the default base price
C13_UnknownFirearmPriced ==
    /\ blend_io.desc = DescUnknown
    /\ blend_io.heuristic # NotComputed
    /\ blend_io.heuristic.present
    /\ blend_io.heuristic.avg_price = 45000
    /\ blend_io.heuristic.range_low < blend_io.heuristic.range_high

\* C19 as stated: for the same descriptor, flag and marketplace listings, and
\* the same (cold) cache, estimate_value and _estimate_single_value both
\* return, with the same estimated_value, value_range, sample_size, source and
\* confidence.
C19_PathsAgree ==
    (blend_io.concurrent # NotComputed /\ blend_io.sequential # NotComputed) =>
        /\ ~blend_io.concurrent.raised
        /\ ~blend_io.sequential.raised
        /\ DerivedFields(blend_io.sequential.value) = DerivedFields(blend_io.concurrent.value)

\* ------------------------------------------------------------------------
\* firearm_values.py : search_armslist (SpecSearch)
\* ------------------------------------------------------------------------
\* most listing elements on a result page
MaxElements == 2

\* a price below $10 is discarded, in cents
MIN_LISTING_PRICE == 1000

\* a price above $50,000 is discarded, in cents
MAX_LISTING_PRICE == 5000000

\* re.sub(r"[^\d.]", "", price_text)
RECURSIVE DigitsAndDots(_)
DigitsAndDots(s) ==
    IF s = "" THEN ""
    ELSE (IF CharAt(s, 1) \in CharsOf(DigitChars) \cup {"."} THEN CharAt(s, 1) ELSE "")
             \o DigitsAndDots(SubSeq(s, 2, Len(s)))

DigitValue(c) == (CHOOSE i \in 1..Len(DigitChars) : CharAt(DigitChars, i) = c) - 1

\* the number a string of digits denotes; 0 for the empty string
RECURSIVE DigitsToNat(_)
DigitsToNat(s) ==
    IF s = "" THEN 0
    ELSE DigitsToNat(SubSeq(s, 1, Len(s) - 1)) * 10 + DigitValue(CharAt(s, Len(s)))

DotPositions(s) == { i \in 1..Len(s) : CharAt(s, i) = "." }

\* float(price_str) in cents (digits after the second decimal are dropped);
\* NoneVal where float raises ValueError: no digit, or more than one dot
FloatCents(s) ==
    IF s = "" \/ s = "." \/ Cardinality(DotPositions(s)) > 1 THEN NoneVal
    ELSE IF DotPositions(s) = {} THEN DigitsToNat(s) * 100
    ELSE LET p == CHOOSE i \in DotPositions(s) : TRUE
             whole == SubSeq(s, 1, p - 1)
             cents == Truncate(SubSeq(s, p + 1, Len(s)) \o "00", 2)
         IN  DigitsToNat(whole) * 100 + DigitsToNat(cents)

\* the price of a listing element: None without a "$", when float fails, or
\* outside $10 .. $50,000
ParsePrice(price_text) ==
    IF price_text # "" /\ Contains(price_text, "$")
    THEN LET price == FloatCents(DigitsAndDots(price_text)) IN
         IF price = NoneVal \/ price < MIN_LISTING_PRICE \/ price > MAX_LISTING_PRICE
         THEN NoneVal ELSE price
    ELSE NoneVal

\* a listing element of the result page: the text of its heading and of its
\* price tag, if it has them; raises marks an element whose extraction raises
Element(title, price_text) ==
    [raises |-> FALSE, has_title |-> TRUE, title |-> title,
     has_price |-> TRUE, price_text |-> price_text]

ElemPriced == Element(" Glock 19 ", "$500")

ElemUnpriced == [Element("Glock 19 Gen5", "") EXCEPT !.has_price = FALSE]

ElemCheap == Element("Holster", "$5.00")

ElemBroken == [Element("", "") EXCEPT !.raises = TRUE]

ElementPool == {ElemPriced, ElemUnpriced, ElemCheap, ElemBroken}

\* the listing dict compiled from one element
ParseElement(item) ==
    LET title      == IF item.has_title THEN PyStrip(item.title) ELSE "No Title"
        price_text == IF item.has_price THEN PyStrip(item.price_text)
                      ELSE "Price not listed"
    IN  MarketListing(title, ParsePrice(price_text), price_text)

\* variant: an element that fails to parse discards the listings collected so far
ListingsAfterElementReset(listings, item) ==
    IF item.raises THEN <<>> ELSE Append(listings, ParseElement(item))

\* one turn of  for item in listing_elements: the listing is appended, or the
\* exception of the element is caught and the loop continues
ListingsAfterElement(listings, item) ==
    IF item.raises THEN listings ELSE Append(listings, ParseElement(item))

\* what session.get / raise_for_status can do
NetworkFailures ==
    {"Timeout", "ConnectionError", "HTTP 429", "HTTP 503", "HTTP 404",
     "RequestException", "unexpected"}

\* a response: a failure of the request, or a body that is blank, that
\* BeautifulSoup cannot parse, whose search for elements raises, or a page
Response(net, body, page) == [net |-> net, body |-> body, page |-> page]

ResponsePool ==
    { Response(f, "none", <<>>) : f \in NetworkFailures }
    \cup { Response("ok", b, <<>>) : b \in {"blank", "unparsable", "unsearchable"} }
    \cup { Response("ok", "page", p) : p \in SeqsOf(ElementPool, 0, MaxElements) }

SearchDescPool == {DescGlockLoose, DescShield}

\* the message of the RequestException raised for a failed request
RequestErrorMessage(net) ==
    CASE net = "Timeout" -> "Armslist request timeout after 15 seconds"
      [] net = "ConnectionError" -> "Connection error when accessing Armslist"
      [] net = "HTTP 429" -> "Rate limited by Armslist (HTTP 429)"
      [] net = "HTTP 503" -> "Armslist server error (HTTP 503)"
      [] net = "HTTP 404" -> "HTTP error 404 from Armslist"
      [] net = "RequestException" -> "Request failed for Armslist"
      [] OTHER -> "Unexpected error searching Armslist"

InitSearch ==
    /\ \E d \in SearchDescPool, r \in ResponsePool :
          blend_io = [desc |-> d, response |-> r, pc |-> "validate", listings |-> <<>>,
                      item |-> 1, outcome |-> NotComputed,
                      requests |-> 0]     \* history: calls of session.get
    /\ clients = Unused
    /\ cache_log = Unused
    /\ store = Unused
    /\ NoBatch
    /\ CacheFresh

\* variant: the descriptor is validated only after the response has arrived
SearchValidateLate ==
    /\ blend_io.pc = "validate"
    /\ blend_io' = [blend_io EXCEPT !.pc = "request"]
    /\ UNCHANGED valueFrame

\* validate_search_params: a rejected descriptor raises ValueError
SearchValidate ==
    /\ blend_io.pc = "validate"
    /\ LET v == ValidationTable[blend_io.desc] IN
       blend_io' = IF v.is_valid
                   THEN [blend_io EXCEPT !.pc = "request"]
                   ELSE [blend_io EXCEPT !.pc = "done", !.outcome =
                            Raised("ValueError",
                                   "Invalid search parameters: " \o v.error_message)]
    /\ UNCHANGED valueFrame

\* session.get and raise_for_status: every failure leaves as a
\* RequestException; a blank body returns []
SearchRequest ==
    /\ blend_io.pc = "request"
    /\ LET r == blend_io.response IN
       blend_io' = IF r.net # "ok"
                   THEN [blend_io EXCEPT !.pc = "done", !.requests = @ + 1, !.outcome =
                            Raised("RequestException", RequestErrorMessage(r.net))]
                   ELSE IF r.body = "blank"
                   THEN [blend_io EXCEPT !.pc = "done", !.requests = @ + 1,
                                         !.outcome = Returned(<<>>)]
                   ELSE [blend_io EXCEPT !.pc = "soup", !.requests = @ + 1]
    /\ UNCHANGED valueFrame

\* BeautifulSoup(response.text) raising gives ValueError; find_all raising
\* gives []; otherwise the loop over the elements starts
SearchSoup ==
    /\ blend_io.pc = "soup"
    /\ LET r == blend_io.response IN
       blend_io' = IF r.body = "unparsable"
                   THEN [blend_io EXCEPT !.pc = "done", !.outcome =
                            Raised("ValueError",
                                   "Failed to parse HTML response from Armslist")]
                   ELSE IF r.body = "unsearchable"
                   THEN [blend_io EXCEPT !.pc = "done", !.outcome = Returned(<<>>)]
                   ELSE [blend_io EXCEPT !.pc = "items", !.item = 1, !.listings = <<>>]
    /\ UNCHANGED valueFrame

\* one turn of the loop over listing_elements
SearchItem ==
    /\ blend_io.pc = "items"
    /\ blend_io.item <= Len(blend_io.response.page)
    /\ blend_io' = [blend_io EXCEPT
          !.listings = ListingsAfterElement(@, blend_io.response.page[blend_io.item]),
          !.item = @ + 1]
    /\ UNCHANGED valueFrame

\* return listings
SearchReturn ==
    /\ blend_io.pc = "items"
    /\ blend_io.item > Len(blend_io.response.page)
    /\ blend_io' = [blend_io EXCEPT !.pc = "done", !.outcome = Returned(blend_io.listings)]
    /\ UNCHANGED valueFrame

NextSearch ==
    \/ SearchValidate
    \/ SearchRequest
    \/ SearchSoup
    \/ SearchItem
    \/ SearchReturn

SpecSearch == InitSearch /\ [][NextSearch]_vars

\* the seven fields of a market listing
ListingFields == {"title", "price", "price_text", "link", "location", "ships", "source"}

\* the element can be parsed
Parses(item) == ~item.raises

\* C17: search_armslist ends in one of two ways.  It raises, and then the
\* exception is a RequestException or a ValueError and no list is returned: for
\* a rejected descriptor, a failed request or an unparsable body.  Or it
\* returns a list: each element has exactly the seven fields, there is one
\* element, in page order, for every listing element that parsed (those that
\* failed are skipped and the others kept), and a blank body gives [].
C17_AllOrNothing ==
    LET o == blend_io.outcome
        r == blend_io.response
        valid == IsValidDescriptor(blend_io.desc)
        parsed == SelectSeq(r.page, Parses)
    IN  o # NotComputed =>
        /\ o.raised =>
              /\ o.kind \in {"RequestException", "ValueError"}
              /\ DOMAIN o = {"raised", "kind", "error"}
              /\ ~valid \/ r.net # "ok" \/ r.body = "unparsable"
        /\ ~o.raised =>
              /\ valid /\ r.net = "ok"
              /\ \A i \in 1..Len(o.value) : DOMAIN o.value[i] = ListingFields
              /\ Len(o.value) = Len(parsed)
              /\ \A i \in 1..Len(o.value) :
                    o.value[i].price_text =
                        (IF parsed[i].has_price THEN PyStrip(parsed[i].price_text)
                         ELSE "Price not listed")
        /\ (valid /\ r.net = "ok" /\ r.body = "blank") => o = Returned(<<>>)
        /\ (valid /\ r.net = "ok" /\ r.body = "page") => ~o.raised

\* C17 witness: on a page of two elements the first failed to parse and was
\* skipped, and the call returned the listing of the second
C17_BrokenElementSkipped ==
    /\ blend_io.outcome # NotComputed
    /\ blend_io.response.body = "page"
    /\ blend_io.response.page = <<ElemPriced, ElemBroken>>
    /\ blend_io.outcome = Returned(<<Listing500>>)

\* C22: for a descriptor that validate_search_params rejects search_armslist
\* issues no HTTP request: it never gets past the validation, and it ends by
\* raising ValueError("Invalid search parameters: ...") with no request made;
\* a request is made only for a descriptor that passed.
C22_NoRequestWhenInvalid ==
    /\ ~IsValidDescriptor(blend_io.desc) =>
          /\ blend_io.requests = 0
          /\ blend_io.pc \in {"validate", "done"}
          /\ blend_io.pc = "done" =>
                /\ blend_io.outcome.raised
                /\ blend_io.outcome.kind = "ValueError"
                /\ blend_io.outcome.error
                      = "Invalid search parameters: "
                           \o ValidationTable[blend_io.desc].error_message
    /\ blend_io.requests > 0 => IsValidDescriptor(blend_io.desc)
    /\ blend_io.requests <= 1

\* C22 witness: the call for the M&P Shield ended with the validation error
\* although the site would have answered with a page; no request was made
C22_RejectedBeforeRequest ==
    /\ blend_io.desc = DescShield
    /\ blend_io.pc = "done"
    /\ blend_io.outcome.raised
    /\ blend_io.outcome.kind = "ValueError"
    /\ blend_io.response.net = "ok"
    /\ blend_io.response.body = "page"
    /\ blend_io.requests = 0

\* ------------------------------------------------------------------------
\* Properties of estimate_values_batch (Spec)
\* ------------------------------------------------------------------------
BatchDone == mainpc = "done"

Positions == 1..Len(tasks)

\* the descriptor of task i passes validate_search_params
WellFormed(i) == ValidationTable[DescOf(tasks[i])].is_valid

\* C1: when estimate_values_batch has returned, results has the length of the
\* batch and its i-th element is a result whose index is i (0-based) and whose
\* manufacturer, model and caliber are those of task i, whatever the order in
\* which the futures completed.
C1_ResultsInBatchOrder ==
    BatchDone =>
        /\ Len(results) = Len(tasks)
        /\ \A i \in Positions :
              /\ results[i] # NoResult
              /\ tasks[i].index = i - 1
              /\ results[i].index = i - 1
              /\ results[i].manufacturer = tasks[i].manufacturer
              /\ results[i].model = tasks[i].model
              /\ results[i].caliber = tasks[i].caliber

\* C1 witness: a batch of two or more returned although the first future
\* yielded was not the one of the first task
C1_OutOfOrderCompletion ==
    /\ BatchDone
    /\ Len(tasks) >= 2
    /\ yield_order[1] # 1
    /\ \A i \in Positions : results[i] # NoResult /\ results[i].index = i - 1

\* an exception was raised while task i was estimated
RaisedInTask(i) ==
    \/ tasklog[i].lookup = "raised"
    \/ tasklog[i].fetch \in {"RequestException", "ValueError"}

\* C2 as stated: every task returns one non-null result, and whatever
\* exception was raised while a task was estimated (cache, rate limiter,
\* marketplace client, pricing model) is reported as success=false with an
\* error message.
C2_EveryExceptionFailsTask ==
    BatchDone =>
        \A i \in Positions :
            /\ results[i] # NoResult
            /\ RaisedInTask(i) => (~results[i].success /\ results[i].error # NoError)

\* C2 amended: every task returns one non-null result for its own position; a
\* task is reported as success=false with an error message and no value_info
\* exactly when an exception escaped to the except clause of
\* _estimate_single_value (here: the cache lookup raised); an exception of the
\* marketplace client is absorbed by _get_cached_or_fetch_listings and the task
\* succeeds with no market listings.
C2_EscapedExceptionFailsTask ==
    BatchDone =>
        /\ Len(results) = Len(tasks)
        /\ \A i \in Positions :
              /\ results[i] # NoResult
              /\ results[i].index = tasks[i].index
              /\ IF tasklog[i].lookup = "raised"
                 THEN /\ ~results[i].success
                      /\ results[i].error # NoError
                      /\ results[i].value_info = NoValueInfo
                 ELSE /\ results[i].success
                      /\ results[i].error = NoError
                      /\ results[i].value_info # NoValueInfo
              /\ tasklog[i].fetch \in {"RequestException", "ValueError"}
                    => results[i].success /\ results[i].value_info.market_listings = <<>>

\* C2 witness: a returned batch of two tasks whose cache lookups both raised,
\* each reported as a failure in its own slot
C2_FailuresReported ==
    /\ BatchDone
    /\ Len(tasks) >= 2
    /\ \A i \in Positions :
          /\ tasklog[i].lookup = "raised"
          /\ results[i] # NoResult
          /\ ~results[i].success

\* task i met the degraded network: online, well-formed, nothing valid in the
\* cache, and the marketplace call raised a network error
DegradedNetwork(i) ==
    /\ tasks[i].use_online_sources
    /\ WellFormed(i)
    /\ tasklog[i].lookup = "miss"
    /\ tasklog[i].fetch = "RequestException"

\* C3: a task with online sources and a well-formed descriptor whose cache
\* lookup found nothing valid and whose marketplace call raised a network
\* error returns success=true, confidence "medium", source "Market Estimator",
\* no market listings, and the heuristic price as estimated_value.
C3_DegradedNetworkIsHeuristic ==
    BatchDone =>
        \A i \in Positions :
            DegradedNetwork(i) =>
                /\ results[i] # NoResult
                /\ results[i].success
                /\ results[i].value_info.confidence = "medium"
                /\ results[i].value_info.source = "Market Estimator"
                /\ results[i].value_info.market_listings = <<>>
                /\ results[i].value_info.estimated_value
                      = AlgoTable[DescOf(tasks[i])].avg_price

\* C3 witness: a returned batch in which every task met the degraded network
C3_AllTasksDegraded ==
    /\ BatchDone
    /\ Len(tasks) >= 2
    /\ \A i \in Positions : DegradedNetwork(i) /\ results[i].success

\* C4: the successive values written to last_request_time are at least
\* rate_limit_delay apart, whichever workers wrote them.
C4_RequestsSpaced ==
    \A k \in 2..Len(request_times) :
        request_times[k] - request_times[k - 1] >= rate_limit_delay

\* C4 witness: two marketplace calls were permitted, the second exactly
\* rate_limit_delay after the first (its worker slept the whole remainder)
C4_SecondCallDelayed ==
    /\ Len(request_times) >= 2
    /\ request_times[2] - request_times[1] = rate_limit_delay
    /\ last_request_time = request_times[Len(request_times)]

\* C9 as stated: a task whose descriptor the validator rejects is reported as
\* success=false with an error message and gets no heuristic estimate.
C9_MalformedTaskFails ==
    BatchDone =>
        \A i \in Positions :
            ~WellFormed(i) =>
                /\ results[i] # NoResult
                /\ ~results[i].success
                /\ results[i].error # NoError
                /\ results[i].value_info = NoValueInfo

\* C16: in every state of a batch no worker holds cache_lock and request_lock
\* together; the holder of request_lock is inside _rate_limited_request and the
\* holder of cache_lock is inside get or set, so no worker waits for one of
\* the two locks while it holds the other.
C16_AtMostOneLock ==
    \A w \in Workers :
        /\ ~(cache_lock = w /\ request_lock = w)
        /\ request_lock = w => wpc[w] = "rl_sleep"
        /\ cache_lock = w => wpc[w] \in {"get_locked", "set_locked"}
        /\ wpc[w] \in {"lookup", "set_acquire"} => request_lock # w
        /\ wpc[w] = "rl_acquire" => cache_lock # w

\* C16 witness: both locks are held at the same moment, by two different
\* workers, one of which sleeps in the rate limiter
C16_BothLocksHeld ==
    /\ cache_lock # 0
    /\ request_lock # 0
    /\ cache_lock # request_lock
    /\ wpc[request_lock] = "rl_sleep"

\* C18 as stated: with the cache disabled (estimator.cache = None) every task
\* with use_online_sources still ends with success = true and a value_info.
C18_CacheDisabledStillEstimates ==
    (BatchDone /\ ~cache_enabled) =>
        \A i \in Positions :
            tasks[i].use_online_sources =>
                /\ results[i].success
                /\ results[i].value_info # NoValueInfo

\* the tasks that went through the rate limiter
RateLimited == { i \in Positions : tasklog[i].rate # "none" }

\* C20: a task enters the rate limiter and calls the marketplace client only
\* if it has use_online_sources and its cache lookup returned absent; every
\* write of last_request_time belongs to such a task, so that with a cache hit
\* or without online sources last_request_time stays as it was.
C20_FetchOnlyOnMiss ==
    /\ \A i \in Positions :
          (tasklog[i].rate # "none" \/ tasklog[i].fetch # "none") =>
              /\ tasks[i].use_online_sources
              /\ tasklog[i].lookup = "miss"
    /\ \A w \in Workers :
          (request_lock = w \/ wpc[w] \in {"rl_acquire", "rl_sleep", "search"}) =>
              /\ Task(w).use_online_sources
              /\ tasklog[wtask[w]].lookup = "miss"
    /\ Len(request_times) = Cardinality({ i \in Positions : tasklog[i].rate = "permitted" })
    /\ RateLimited = {} => (last_request_time = 0 /\ request_lock = 0)
    /\ request_times # <<>> => last_request_time = request_times[Len(request_times)]

\* C20 witness: in a finished batch one task was served from the cache without
\* touching the rate limiter while another one missed and fetched
C20_HitSkipsFetch ==
    /\ BatchDone
    /\ \E i \in Positions, j \in Positions :
          /\ tasklog[i].lookup = "hit"
          /\ tasklog[i].rate = "none" /\ tasklog[i].fetch = "none"
          /\ results[i].success
          /\ tasklog[j].lookup = "miss"
          /\ tasklog[j].rate = "permitted"
    /\ Len(request_times) = 1

\* task i called the marketplace and the call raised
FetchRaised(i) == tasklog[i].fetch \in {"RequestException", "ValueError"}

\* C21 as stated: a task whose marketplace fetch raised goes on with no live
\* listings and leaves both cache tiers exactly as they were before the task:
\* it creates no entry and overwrites or removes none.
C21_FailedFetchLeavesTiers ==
    \A i \in Positions :
        FetchRaised(i) =>
            /\ ~tasklog[i].stored
            /\ ~tasklog[i].tiers_changed
            /\ futures[i] # NoResult
            /\ futures[i].value_info.market_listings = <<>>

\* C21 amended: a task whose marketplace fetch raised never reaches cache.set,
\* so it creates and overwrites no entry, and it finishes at once with no live
\* listings; the only change it makes to the tiers is that its cache lookup,
\* before the fetch, removed the records of its key that were expired or
\* unreadable at that time.
C21_FailedFetchStoresNothing ==
    \A i \in Positions :
        FetchRaised(i) =>
            /\ ~tasklog[i].stored
            /\ tasklog[i].lookup = "miss"
            /\ tasklog[i].only_evicted
            /\ \A w \in Workers : wtask[w] # i
            /\ futures[i] # NoResult
            /\ futures[i].success
            /\ futures[i].value_info.market_listings = <<>>

\* C21 witness: in a returned batch a task whose fetch raised had found the
\* expired cache file of the earlier run and removed it; neither tier holds a
\* record for its key
C21_ExpiredFileEvicted ==
    /\ BatchDone
    /\ \E i \in Positions :
          /\ FetchRaised(i)
          /\ tasklog[i].tiers_changed
          /\ results[i].success
          /\ results[i].value_info.market_listings = <<>>
          /\ memory_cache[KeyTable[DescOf(tasks[i])]] = NoEntry
          /\ file_cache[KeyTable[DescOf(tasks[i])]] = NoEntry

\* C25: progress_callback is called once for each future that as_completed
\* yields, so N times when the batch of N tasks has returned; the k-th call
\* reports completed_count = k and total_count = N, it is made for a task
\* that has completed, and at the time of the call results already holds that
\* task's result at the task's position.
C25_ProgressCountsUp ==
    /\ Len(progress_calls) = completed_count
    /\ Len(progress_calls) = Cardinality(yielded)
    /\ BatchDone => Len(progress_calls) = Len(tasks)
    /\ \A k \in 1..Len(progress_calls) :
          LET call == progress_calls[k] IN
          /\ call.completed_count = k
          /\ call.total_count = Len(tasks)
          /\ call.index = yield_order[k] - 1
          /\ futures[yield_order[k]] # NoResult
          /\ call.slot = futures[yield_order[k]]
          /\ results[call.index + 1] = call.slot
    /\ \A k \in 1..Len(progress_calls), m \in 1..Len(progress_calls) :
          k # m => progress_calls[k].index # progress_calls[m].index

\* C25 witness: a batch of two has returned; the second task completed first,
\* and the callback was called with (1, 2) for it and then with (2, 2) for the
\* first task
C25_CountsFollowCompletion ==
    /\ BatchDone
    /\ Len(tasks) = 2
    /\ Len(progress_calls) = 2
    /\ progress_calls[1].completed_count = 1 /\ progress_calls[1].index = 1
    /\ progress_calls[2].completed_count = 2 /\ progress_calls[2].index = 0
    /\ progress_calls[1].total_count = 2

\* a worker inside search_armslist holds no lock
SearchHoldsNoLock ==
    \A w \in Workers :
        wpc[w] = "search" => (cache_lock # w /\ request_lock # w)

\* the marketplace call of worker w ends with a network error (a timeout
\* among them) in this step
SearchTimesOut(w) ==
    /\ wpc[w] = "search"
    /\ wpc'[w] = "idle"
    /\ tasklog'[wtask[w]].fetch = "RequestException"

\* the step changes nothing but the future of task i and the position of the
\* worker that ran it
OnlyTaskAffected(i) ==
    /\ \A j \in Positions : j # i => futures'[j] = futures[j]
    /\ results' = results
    /\ memory_cache' = memory_cache
    /\ file_cache' = file_cache
    /\ cache_lock' = cache_lock
    /\ request_lock' = request_lock
    /\ last_request_time' = last_request_time

\* C26: a worker that is inside search_armslist holds neither request_lock
\* nor cache_lock, so it keeps no other worker from the rate limiter or the
\* cache; and when its call ends with a network error, its own task gets the
\* heuristic-only estimate while the futures of the other tasks, results, the
\* cache and the rate limiter stay as they are.
C26_NoLockAcrossSearch ==
    /\ []SearchHoldsNoLock
    /\ [][\A w \in Workers :
            SearchTimesOut(w) =>
                /\ futures'[wtask[w]]
                      = SuccessResult(Task(w), TaskValueInfo(Task(w), <<>>))
                /\ OnlyTaskAffected(wtask[w])]_vars

\* C26 witness: one worker is inside search_armslist while another one, which
\* took request_lock after it, is in the rate limiter
C26_LimiterPassedDuringSearch ==
    \E w \in Workers, v \in Workers :
        /\ w # v
        /\ wpc[w] = "search"
        /\ request_lock = v
        /\ wpc[v] = "rl_sleep"
        /\ cache_lock = 0

\* the cache key of task i
Fingerprint(i) == KeyTable[DescOf(tasks[i])]

\* task j looked the cache up after task i had stored its entry, and the
\* entry was no longer within the TTL
LookedUpAfterExpiry(j, i) ==
    i \in tasklog[j].prior /\ i \notin tasklog[j].fresh

\* C28 as stated: two tasks of a batch with the same fingerprint do not both
\* call the marketplace successfully, unless the entry fetched by one of them
\* had expired when the other looked the cache up.
C28_OneCallPerFingerprint ==
    \A i \in Positions, j \in Positions :
        (/\ i # j
         /\ Fingerprint(i) = Fingerprint(j)
         /\ tasklog[i].fetch = "ok"
         /\ tasklog[j].fetch = "ok")
        => (LookedUpAfterExpiry(j, i) \/ LookedUpAfterExpiry(i, j))

\* when task j looked the cache up, task i had fetched an empty list for the
\* same fingerprint and stored it, and that entry was within the TTL
EmptyFetchCached(i, j) ==
    /\ i # j
    /\ Fingerprint(i) = Fingerprint(j)
    /\ tasklog[i].fetch = "ok"
    /\ tasklog[i].fetched = <<>>
    /\ i \in tasklog[j].fresh

\* C29 as stated: once a task has fetched an empty list and cached it, a
\* lookup for the same fingerprint within the TTL of that entry is a hit, so
\* the task that makes it does not enter the rate limiter and makes no
\* marketplace call; it gets the empty list (unless another task has cached
\* other listings for the fingerprint in the meantime).
C29_EmptyFetchIsHit ==
    \A i \in Positions, j \in Positions :
        EmptyFetchCached(i, j) =>
            /\ tasklog[j].lookup = "hit"
            /\ tasklog[j].rate = "none"
            /\ tasklog[j].fetch = "none"
            /\ (/\ futures[j] # NoResult
                /\ \A k \in tasklog[j].prior : tasklog[k].fetched = <<>>)
               => futures[j].value_info.market_listings = <<>>

\* estimate_values_batch has returned a result for every task, every worker
\* is back from its task and both locks are free
BatchOver ==
    /\ BatchDone
    /\ \A i \in Positions : results[i] # NoResult
    /\ \A w \in Workers : wpc[w] = "idle"
    /\ cache_lock = 0 /\ request_lock = 0

\* C30: under fair scheduling every batch returns, with a result for every
\* task; by then every worker that had taken a task has come back from it, so
\* none waits forever for cache_lock or request_lock.
C30_BatchTerminates == <>BatchOver

\* C30 witness: the batch of three tasks for one firearm has returned after
\* every task went through the cache and two or more of them through the rate
\* limiter, on fewer workers than tasks
C30_ContendedBatchReturned ==
    /\ BatchDone
    /\ Len(tasks) = MaxSameTasks
    /\ Len(tasks) > NumWorkers
    /\ \A i \in Positions : tasklog[i].lookup \in {"hit", "miss"}
    /\ Len(request_times) >= 2
    /\ cache_lock = 0 /\ request_lock = 0

==========================================================================
